---- MODULE Spec2Model ----
(***************************************************************************)
(* Model of log_to_aws.py: the serial producer thread, the in-memory       *)
(* delivery queue, the orchestrator tick loop of main() and the            *)
(* transactional flush into the sensor / reading tables.                   *)
(***************************************************************************)
EXTENDS Integers, Sequences, FiniteSets, TLC

\* ---------------------------------------------------------------- bounds
\* Number of packets the serial source delivers in one run.
MaxPackets == 2
\* The values of cfg["batch_size"] (BATCH_SIZE of the environment) covered.
BatchSizes == {1, 2}

\* ------------------------------------------------------- packet alphabet
\* Sensor names as UTF-8 byte strings: "a" and "b".
Names == {<<97>>, <<98>>}
\* Values of the packet's sensor_type field.
STypes == {"soil", "air"}
\* Identities of the enqueue calls (the Python tuple objects).
Ids == 1..MaxPackets

\* ------------------------------------------------------------ bit helpers
Min(a, b) == IF a < b THEN a ELSE b

\* a ^ b on non-negative integers.
RECURSIVE BitXor(_, _)
BitXor(a, b) ==
    IF a = 0 THEN b
    ELSE IF b = 0 THEN a
    ELSE ((a + b) % 2) + (2 * BitXor(a \div 2, b \div 2))

\* A 32-bit word is kept as <<high 16 bits, low 16 bits>>, because
\* 0xFFFFFFFF does not fit the model checker's integers.
Word == (0..65535) \X (0..65535)

\* 0xFFFFFFFF
AllOnes == <<65535, 65535>>

\* The reflected CRC-32 polynomial 0xEDB88320 = 0xEDB8 * 2^16 + 0x8320.
CrcPoly == <<60856, 33568>>

\* One bit of the CRC: "crc = (crc >> 1) ^ poly if crc & 1 else crc >> 1".
CrcShift1[w \in Word] ==
    LET hi == w[1] \div 2
        lo == (w[2] \div 2) + ((w[1] % 2) * 32768)
    IN  IF w[2] % 2 = 1
        THEN <<BitXor(hi, CrcPoly[1]), BitXor(lo, CrcPoly[2])>>
        ELSE <<hi, lo>>

\* One byte of the CRC: the byte xored into the low bits, then eight shifts.
CrcByte[w \in Word, b \in 0..255] ==
    CrcShift1[CrcShift1[CrcShift1[CrcShift1[CrcShift1[CrcShift1[CrcShift1[
        CrcShift1[<<w[1], BitXor(w[2], b)>>]]]]]]]]

CrcBytes[bytes \in Seq(0..255)] ==
    IF bytes = <<>> THEN AllOnes
    ELSE CrcByte[CrcBytes[SubSeq(bytes, 1, Len(bytes) - 1)],
                 bytes[Len(bytes)]]

\* binascii.crc32(data) & 0xFFFFFFFF
crc32(bytes) ==
    LET w == CrcBytes[bytes]
    IN  <<BitXor(w[1], AllOnes[1]), BitXor(w[2], AllOnes[2])>>

\* Variant: 1000 + (crc32 & 0xFFFFFFFF), the sign bit kept.
stable_hardware_id_unmasked(name) ==
    LET c  == crc32(name)
        lo == c[2] + 1000
    IN  <<c[1] + (lo \div 65536), lo % 65536>>

\* 1000 + (crc32 & 0x7FFFFFFF), kept as <<high 16 bits, low 16 bits>>: the
\* value is hi * 65536 + lo and can exceed 2^31 - 1.
masked_crc_id(name) ==
    LET c  == crc32(name)
        lo == c[2] + 1000
        hi == c[1] % 32768
    IN  <<hi + (lo \div 65536), lo % 65536>>

\* The ids of the names the radio's packets carry, computed once.
HwOf == [n \in Names |-> masked_crc_id(n)]

\* stable_hardware_id
stable_hardware_id(name) ==
    IF name \in Names THEN HwOf[name] ELSE masked_crc_id(name)


\* ------------------------------------------------------------ relay frames
\* a ^ b on bytes.
RECURSIVE Xor8(_, _)
Xor8(a, b) ==
    IF a = 0 THEN b
    ELSE IF b = 0 THEN a
    ELSE ((a + b) % 2) + (2 * Xor8(a \div 2, b \div 2))

\* "x = 0; for b in pkt: x ^= b"
RECURSIVE XorAll(_)
XorAll(bytes) ==
    IF bytes = <<>> THEN 0 ELSE Xor8(XorAll(SubSeq(bytes, 1, Len(bytes) - 1)),
                                     bytes[Len(bytes)])

FrameHead == 161
FrameTail == 170

\* Variant: the checksum taken over the content bytes only.
frame_content_xor(password, opcode, content) ==
    <<FrameHead, (password \div 256) % 256, password % 256, opcode>>
        \o content \o <<XorAll(content), FrameTail>>

\* Variant: the password low byte first.
frame_low_first(password, opcode, content) ==
    LET pkt == <<FrameHead, password % 256, (password \div 256) % 256,
                 opcode>> \o content
    IN  pkt \o <<XorAll(pkt), FrameTail>>

\* _frame: [0xA1][pwd_hi][pwd_lo][opcode][content...][xor][0xAA]
frame(password, opcode, content) ==
    LET pkt == <<FrameHead, (password \div 256) % 256, password % 256,
                 opcode>> \o content
    IN  pkt \o <<XorAll(pkt), FrameTail>>

OpOn == 1
OpOff == 2
DefaultChannel == 1

\* Variant: the ON phase sending the "OFF now" opcode.
on_now_sends_off(password) == frame(password, OpOff, <<DefaultChannel>>)

\* _on_now, _off_now with the default channel.
on_now(password) == frame(password, OpOn, <<DefaultChannel>>)
off_now(password) == frame(password, OpOff, <<DefaultChannel>>)

\* _parse_pwd of an unset DSD_PASSWORD: 0x04D2.
DefaultPassword == 1234

\* The two frames the controller writes, computed once.
RelayOn == on_now(DefaultPassword)
RelayOff == off_now(DefaultPassword)

\* ------------------------------------------------------------ JSON values
\* A decoded JSON value with its Python type; None is JNull. Strings are
\* kept as sequences of code points.
JStr(s) == [t |-> "str", v |-> s]
JNum(n) == [t |-> "num", v |-> n]
JBool(b) == [t |-> "bool", v |-> b]
JNull == [t |-> "null", v |-> 0]

\* dict.get(key)
Get(pkt, key) == IF key \in DOMAIN pkt THEN pkt[key] ELSE JNull

\* isinstance(v, (int, float)): bool is a subclass of int.
IsNumber(v) == v.t \in {"num", "bool"}

\* str(n) of an integer, as code points.
RECURSIVE Digits(_)
Digits(n) ==
    IF n < 0 THEN <<45>> \o Digits(0 - n)
    ELSE IF n < 10 THEN <<48 + n>>
    ELSE Digits(n \div 10) \o <<48 + (n % 10)>>

\* The text an f-string puts in place of a value.
Text(v) ==
    IF v.t = "str" THEN v.v
    ELSE IF v.t = "num" THEN Digits(v.v)
    ELSE IF v.v THEN <<84, 114, 117, 101>>
    ELSE <<70, 97, 108, 115, 101>>

\* "tx-" and "unknown"
Tx == <<116, 120, 45>>
Unknown == <<117, 110, 107, 110, 111, 119, 110>>

\* The name translate_packet gives the sensor: the packet's name when it
\* is a non-empty string, otherwise "tx-" and the sensor_id or "unknown".
resolve_name(pkt) ==
    LET name == Get(pkt, "name")
        sensor_id_fallback == Get(pkt, "sensor_id")
    IN  IF name.t = "str" /\ name.v # <<>> THEN name.v
        ELSE Tx \o (IF sensor_id_fallback.t # "null"
                    THEN Text(sensor_id_fallback) ELSE Unknown)

\* The configured default coordinates: whatever the environment gave (a
\* float or None), told apart from every value a packet can carry.
DEFAULT_LAT == [t |-> "env", v |-> "DEFAULT_LAT"]
DEFAULT_LON == [t |-> "env", v |-> "DEFAULT_LON"]

\* ----------------------------------------------------------------- parser
\* A serial line is a sequence of pieces of text. Each piece is one character,
\* except "x" (any text without blanks, '#', '|', braces), "m" (the members
\* "name":"a","sensor_type":"soil","sequence":N, N the device's count of
\* packets), "u" (the same with "name":"\ud800", a lone surrogate) and "d"
\* (the member "a":[[[...]]], well-formed, with more levels of brackets
\* than the interpreter's recursion limit).
Pieces == {" ", "#", "|", "{", "}", "x", "m", "u", "d"}

\* str.strip(): the text between its first and its last piece that is not
\* a blank.
Strip(t) ==
    LET solid == {i \in 1..Len(t) : t[i] # " "}
    IN  IF solid = {} THEN <<>>
        ELSE SubSeq(t, CHOOSE i \in solid : \A j \in solid : i <= j,
                       CHOOSE i \in solid : \A j \in solid : i >= j)

\* text.startswith("{") and text.endswith("}")
Braced(t) == t # <<>> /\ t[1] = "{" /\ t[Len(t)] = "}"

\* text.split("|", 1)[1]
AfterBar(t) ==
    LET i == CHOOSE k \in 1..Len(t) :
                 t[k] = "|" /\ \A j \in 1..(k - 1) : t[j] # "|"
    IN  SubSeq(t, i + 1, Len(t))

\* _extract_json_text; <<>> stands for None.
extract_json_text(line) ==
    LET text == Strip(line)
    IN  IF text = <<>> \/ text[1] = "#" THEN <<>>
        ELSE IF Braced(text) THEN text
        ELSE IF \E k \in 1..Len(text) : text[k] = "|"
             THEN LET part == Strip(AfterBar(text))
                  IN  IF Braced(part) THEN part ELSE <<>>
             ELSE <<>>

\* The pieces of a text that are not blanks.
IsSolid(piece) == piece # " "

NoBlanks(t) == SelectSeq(t, IsSolid)

\* The name "\ud800" as code points; str.encode("utf-8") raises on it.
Surrogate == <<55296>>

\* What the parser hands on: nothing, or a JSON object with its fields.
NoPacket == [obj |-> "none", fields |-> <<>>]

\* An exception leaves the function.
Raised == [obj |-> "raise", fields |-> <<>>]

\* json.loads fails with json.JSONDecodeError.
DecodeError == [obj |-> "JSONDecodeError", fields |-> <<>>]

\* json.loads of a braced text: "{}" is the object without fields; the
\* member "d" makes the decoder raise RecursionError; anything else
\* between the braces than blanks or one member list is a JSONDecodeError.
json_loads(text, n) ==
    LET body == NoBlanks(text)
    IN  IF body = <<"{", "}">> THEN [obj |-> "dict", fields |-> <<>>]
        ELSE IF body = <<"{", "m", "}">>
             THEN [obj |-> "dict",
                   fields |-> [name |-> JStr(<<97>>),
                               sensor_type |-> JStr("soil"),
                               sequence |-> JNum(n)]]
        ELSE IF body = <<"{", "u", "}">>
             THEN [obj |-> "dict",
                   fields |-> [name |-> JStr(Surrogate),
                               sensor_type |-> JStr("soil"),
                               sequence |-> JNum(n)]]
        ELSE IF body = <<"{", "d", "}">> THEN Raised
        ELSE DecodeError

\* parse_line_to_packet: only json.JSONDecodeError is caught.
parse_line_to_packet(line, n) ==
    LET json_text == extract_json_text(line)
        obj == json_loads(json_text, n)
    IN  IF json_text = <<>> THEN NoPacket
        ELSE IF obj.obj = "JSONDecodeError" THEN NoPacket
        ELSE IF obj.obj = "raise" THEN Raised
        ELSE IF obj.obj # "dict" THEN NoPacket
        ELSE obj

\* _run: "if not pkt": None and the empty dict are both false.
not_pkt(pkt) ==
    pkt.obj = "none" \/ (pkt.obj = "dict" /\ DOMAIN pkt.fields = {})

\* name.encode("utf-8") in stable_hardware_id raises UnicodeEncodeError.
encode_raises(name) == \E i \in 1..Len(name) : name[i] \in 55296..57343

\* The lines the radio sends in a run: nothing within the read timeout, a
\* comment, text that is not JSON, the empty object, a packet, a packet
\* whose name cannot be encoded, a packet nested too deep to decode, and
\* a packet behind a legacy prefix or inside blanks.
DeviceLines ==
    {<<>>, <<"#", "x">>, <<"x">>, <<"{", "}">>, <<"{", "m", "}">>,
     <<"{", "u", "}">>, <<"{", "d", "}">>, <<"x", "|", "{", "m", "}">>,
     <<" ", "{", "m", "}", " ">>}

\* The line makes _run enqueue an item.
Yields(line, n) ==
    LET pkt == parse_line_to_packet(line, n)
    IN  /\ pkt.obj = "dict"
        /\ ~not_pkt(pkt)
        /\ ~encode_raises(resolve_name(pkt.fields))

\* parse_line_to_packet of every line the radio sends, as the n-th packet,
\* and whether the line yields an item; computed once.
DeviceParse ==
    [line \in DeviceLines |->
        [n \in 1..(MaxPackets + 2) |-> parse_line_to_packet(line, n)]]

DeviceYields ==
    [line \in DeviceLines |->
        [n \in 1..(MaxPackets + 2) |-> Yields(line, n)]]

\* ------------------------------------------------------------------ state
VARIABLES
    batch_size, \* cfg["batch_size"]
    q,          \* InMemoryQueue._q
    lock,       \* threads inside "with self._lock"
    stop,       \* stop_event
    received,   \* number of packets the serial thread has handled
    now,        \* last value datetime.now(timezone.utc) returned
    spc,        \* serial thread position
    cur,        \* item on_packet is enqueueing
    tpc,        \* main thread position
    connected,  \* main(): connected, the probe's result in this tick
    items,      \* main(): items (dequeue_batch: out)
    reqIdx,     \* items still to re-enqueue in "for it in reversed(items)"
    sensorTab,  \* committed rows of table sensor
    readingTab, \* committed rows of table reading
    txS,        \* sensor rows as seen inside the open transaction
    txR,        \* reading rows as seen inside the open transaction
    healthy,    \* TRUE once probe and flush never fail again
    qBefore,    \* history: the queue right before the tick's dequeue_batch
    sBefore,    \* history: table sensor when flush_queue was called
    rBefore,    \* history: table reading when flush_queue was called
    btcfg,      \* cfg: starlink_*_mins, dsd_device_mac; bleak imported or not
    bpc,        \* relay thread position
    wire,       \* last frame written to the relay's characteristic
    wseq,       \* parity of the number of frames written
    bsleep,     \* seconds of the relay thread's sleep in progress
    stopAt,     \* history: the relay thread's position when stop was set
    ser,        \* the serial handle: "open" or "closed"
    backoff_s,  \* _run: backoff_s, in seconds
    raw,        \* _run: raw, the line readline returned
    ssleep,     \* seconds of the serial thread's sleep in progress
    lastFail,   \* history: the serial I/O failure not yet followed by a wait
    pktErr,     \* history: on_packet has raised on the handle now open
    fin,        \* _frame: the arguments password, opcode, content
    fout,       \* the frame _frame returned, as it is on the wire
    fpos,       \* the position of the byte changed on the wire, 0 for none
    env,        \* the process environment and the device files at startup
    exitCode,   \* the status main returned, NoStatus before it returns
    made,       \* what main has created or started so far
    pin,        \* parse_line_to_packet: the argument line
    pout,       \* what parse_line_to_packet returned or raised
    tin,        \* translate_packet: the argument pkt
    tout,       \* the pair (sensor, reading) translate_packet returned
    latest      \* history: per hardware_id, the sensor dict received last

coreVars ==
    <<batch_size, q, lock, stop, received, now, spc, cur, tpc, connected,
      items, reqIdx, sensorTab, readingTab, txS, txR, healthy, qBefore,
      sBefore, rBefore>>

relayVars == <<btcfg, bpc, wire, wseq, bsleep>>

\* What the serial thread and the tick loop leave alone.
readerVars == <<ser, backoff_s, raw, ssleep, lastFail, pktErr>>

auxVars == <<relayVars, readerVars>>

frameVars == <<fin, fout, fpos>>

parseVars == <<pin, pout>>

transVars == <<tin, tout>>

\* The arguments and results of the functions examined on their own.
pureVars == <<frameVars, parseVars, transVars>>

startVars == <<env, exitCode, made>>

vars == <<coreVars, auxVars, stopAt, pureVars, startVars, latest>>

serialVars == <<received, now, spc, cur>>
dbVars == <<sensorTab, readingTab, txS, txR>>
tickHist == <<qBefore, sBefore, rBefore>>

\* The value of a local that holds nothing.
NoItem == [id |-> 0]

\* _run: the first backoff and its ceiling, in seconds.
BackoffStart == 1
BackoffCap == 30

\* Values of STARLINK_UPTIME_MINS and STARLINK_DOWNTIME_MINS (minutes), and
\* of DSD_DEVICE_MAC: unset (None), empty, or an address.
Mins == {-1, 0, 1}
Macs == {"none", "", "C8:47:80:00:00:01"}

\* A configuration without relay control: both minutes at their default 0
\* and no address.
NoRelay == [up |-> 0, down |-> 0, mac |-> "none", bleak |-> TRUE]

\* ------------------------------------------------------------- translator
\* translate_packet: the sensor dict and the reading dict of one packet,
\* the reading stamped with the receipt time. id is the identity of the
\* resulting tuple object.
translate_packet(id, pkt, ts) ==
    LET name == resolve_name(pkt)
        hardware_id == stable_hardware_id(name)
        gps_lat == Get(pkt, "gps_lat")
        gps_long == Get(pkt, "gps_long")
        stype == Get(pkt, "sensor_type")
    IN  [id      |-> id,
         sensor  |-> [hardware_id |-> hardware_id,
                      name |-> name,
                      sensor_type |-> IF stype.t = "str" THEN stype
                                      ELSE JNull,
                      gps_latitude |-> IF IsNumber(gps_lat) THEN gps_lat
                                       ELSE DEFAULT_LAT,
                      gps_longitude |-> IF IsNumber(gps_long) THEN gps_long
                                        ELSE DEFAULT_LON,
                      metadata |-> [source |-> "radio",
                                    net |-> Get(pkt, "net")]],
         reading |-> [sensor_id |-> hardware_id,
                      ts |-> ts,
                      sequence |-> Get(pkt, "sequence"),
                      temperature_c |-> Get(pkt, "temperature_c"),
                      humidity_pct |-> Get(pkt, "humidity_pct"),
                      capacitance_val |-> Get(pkt, "capacitance_val"),
                      battery_v |-> Get(pkt, "battery_v"),
                      rssi_dbm |-> Get(pkt, "rssi_dbm")]]

\* ------------------------------------------------------------------ queue
\* Variant: an acquire that never blocks (the "with self._lock" left out).
lock_never_blocks(holders) == TRUE

\* threading.Lock: acquire succeeds only while no thread holds the lock.
LockFree(holders) == holders = {}

\* Variant: a deque(maxlen=1), whose append discards the oldest item.
enqueue_bounded(queue, item) ==
    IF Len(queue) >= 1 THEN Append(Tail(queue), item) ELSE Append(queue, item)

\* InMemoryQueue.enqueue: self._q.append(item)
enqueue(queue, item) == Append(queue, item)

\* Variant: the loop bound taken as "len(out) <= max_items".
RECURSIVE dequeue_batch_offbyone(_, _, _)
dequeue_batch_offbyone(queue, out, max_items) ==
    IF queue # <<>> /\ Len(out) <= max_items
    THEN dequeue_batch_offbyone(Tail(queue), Append(out, Head(queue)),
                                max_items)
    ELSE [q |-> queue, out |-> out]

\* InMemoryQueue.dequeue_batch: the popleft loop, run under the lock.
RECURSIVE dequeue_batch(_, _, _)
dequeue_batch(queue, out, max_items) ==
    IF queue # <<>> /\ Len(out) < max_items
    THEN dequeue_batch(Tail(queue), Append(out, Head(queue)), max_items)
    ELSE [q |-> queue, out |-> out]

\* ---------------------------------------------------------------- storage
\* Variant: the first dict of a hardware_id kept ("if key not in dedup").
dedup_first_wins(sensors) ==
    {sensors[i] : i \in {j \in 1..Len(sensors) :
        \A k \in 1..(j - 1) :
            sensors[k].hardware_id # sensors[j].hardware_id}}

\* ensure_sensors: deduplicate by hardware_id, the last dict winning, then
\* insert ... on conflict (hardware_id) do update.
dedup(sensors) ==
    {sensors[i] : i \in {j \in 1..Len(sensors) :
        \A k \in (j + 1)..Len(sensors) :
            sensors[k].hardware_id # sensors[j].hardware_id}}

\* Variant: a plain insert of every sensor dict, without the deduplication
\* and without "on conflict (hardware_id) do update".
ensure_sensors_plain(tab, sensors) ==
    tab \cup {sensors[i] : i \in 1..Len(sensors)}

ensure_sensors(tab, sensors) ==
    {r \in tab : \A s \in dedup(sensors) : s.hardware_id # r.hardware_id}
        \cup dedup(sensors)

\* Variant: a plain insert, without "on conflict ... do nothing".
insert_readings_plain(tab, readings) == tab \o readings

\* insert_readings: insert ... on conflict (sensor_id, ts) do nothing, row
\* by row in batch order.
RECURSIVE insert_readings(_, _)
insert_readings(tab, readings) ==
    IF readings = <<>> THEN tab
    ELSE LET r == Head(readings)
             conflict == \E i \in 1..Len(tab) :
                            /\ tab[i].sensor_id = r.sensor_id
                            /\ tab[i].ts = r.ts
         IN  insert_readings(IF conflict THEN tab ELSE Append(tab, r),
                             Tail(readings))

\* No frame encoded yet.
NoFrame == [password |-> 0, opcode |-> 0, content |-> <<>>]

FrameIdle == fin = NoFrame /\ fout = <<>> /\ fpos = 0

\* parse_line_to_packet and translate_packet not called on their own.
NoResult == [obj |-> "unset", fields |-> <<>>]

ParseIdle == pin = <<>> /\ pout = NoResult

TransIdle == tin = <<>> /\ tout = NoItem

PureIdle == FrameIdle /\ ParseIdle /\ TransIdle

\* Values of DATABASE_URL and SERIAL_PORT (unset, empty, set), the device
\* files that exist, and the files the three glob patterns of
\* find_serial_port match.
DbUrls == {"none", "", "postgresql://db"}
SerialPorts == {"none", "/dev/ttyS0"}
DeviceSets == {{}, {"/dev/ttyS0"}}
GlobPaths == {"/dev/ttyACM0"}

Envs ==
    [db_url : DbUrls, serial_port : SerialPorts, devices : DeviceSets,
     mins_numeric : BOOLEAN]

\* main has not returned: the process has no exit status.
NoStatus == -1

\* An environment with which main reaches its tick loop.
RunEnv ==
    [db_url |-> "postgresql://db", serial_port |-> "none",
     devices |-> {"/dev/ttyACM0"}, mins_numeric |-> TRUE]

\* main past its startup: queue, stop_event and signal handlers made, the
\* serial reader started, start_bt_switcher called.
AllMade == {"queue", "stop_event", "signals", "serial-reader", "switcher"}

Started == env = RunEnv /\ exitCode = NoStatus /\ made = AllMade

\* ------------------------------------------------------------------- init
Init ==
    /\ batch_size \in BatchSizes
    /\ q = <<>>
    /\ lock = {}
    /\ stop = FALSE
    /\ received = 0
    /\ now = 0
    /\ spc = "read"
    /\ cur = NoItem
    /\ tpc = "top"
    /\ connected = "unset"
    /\ items = <<>>
    /\ reqIdx = 0
    /\ sensorTab = {}
    /\ readingTab = <<>>
    /\ txS = {}
    /\ txR = <<>>
    /\ healthy = FALSE
    /\ qBefore = <<>>
    /\ sBefore = {}
    /\ rBefore = <<>>
    /\ btcfg = NoRelay
    /\ bpc = "disabled"
    /\ wire = <<>>
    /\ wseq = 0
    /\ bsleep = 0
    /\ stopAt = "unset"
    /\ latest = {}
    /\ ser = "open"
    /\ backoff_s = BackoffStart
    /\ raw = <<>>
    /\ ssleep = 0
    /\ lastFail = "none"
    /\ pktErr = FALSE
    /\ PureIdle
    /\ Started

\* ---------------------------------------------------------- serial thread
\* History: the sensor dict of the packet received last, per hardware_id.
received_last(seen, sensor) ==
    {s \in seen : s.hardware_id # sensor.hardware_id} \cup {sensor}

\* _run: readline returned a line that parses; on_packet translates it.
SerialRead ==
    /\ spc = "read"
    /\ ~stop
    /\ received < MaxPackets
    /\ \E name \in Names, stype \in STypes :
        LET pkt == [name |-> JStr(name), sensor_type |-> JStr(stype),
                    sequence |-> JNum(received + 1)]
        IN  cur' = translate_packet(received + 1, pkt, now + 1)
    /\ latest' = received_last(latest, cur'.sensor)
    /\ now' = now + 1
    /\ received' = received + 1
    /\ spc' = "enqueue"
    /\ UNCHANGED <<batch_size, q, lock, stop, tpc, connected, items, reqIdx,
                   dbVars, healthy, tickHist, auxVars, stopAt, pureVars,
                   startVars>>

\* on_packet: q.enqueue blocks until the lock is free.
SerialAcquire ==
    /\ spc = "enqueue"
    /\ LockFree(lock)
    /\ lock' = lock \cup {"serial"}
    /\ spc' = "append"
    /\ UNCHANGED <<batch_size, q, stop, received, now, cur, tpc, connected,
                   items, reqIdx, dbVars, healthy, tickHist, auxVars, stopAt,
                   pureVars, startVars, latest>>

\* on_packet: the append under the lock, and the release.
SerialAppend ==
    /\ spc = "append"
    /\ q' = enqueue(q, cur)
    /\ lock' = lock \ {"serial"}
    /\ cur' = NoItem
    /\ spc' = "len"
    /\ UNCHANGED <<batch_size, stop, received, now, tpc, connected, items,
                   reqIdx, dbVars, healthy, tickHist, auxVars, stopAt,
                   pureVars, startVars, latest>>

\* on_packet: len(q) in the log call waits for the lock.
SerialLenAcquire ==
    /\ spc = "len"
    /\ LockFree(lock)
    /\ lock' = lock \cup {"serial"}
    /\ spc' = "len_locked"
    /\ UNCHANGED <<batch_size, q, stop, received, now, cur, tpc, connected,
                   items, reqIdx, dbVars, healthy, tickHist, auxVars, stopAt,
                   pureVars, startVars, latest>>

\* InMemoryQueue.__len__: len(self._q) under the lock, and the release;
\* on_packet returns.
SerialLenRelease ==
    /\ spc = "len_locked"
    /\ lock' = lock \ {"serial"}
    /\ spc' = "read"
    /\ UNCHANGED <<batch_size, q, stop, received, now, cur, tpc, connected,
                   items, reqIdx, dbVars, healthy, tickHist, auxVars, stopAt,
                   pureVars, startVars, latest>>

\* _run: "while not stop_event.is_set()" ends the thread.
SerialExit ==
    /\ spc = "read"
    /\ stop
    /\ spc' = "done"
    /\ UNCHANGED <<batch_size, q, lock, stop, received, now, cur, tpc,
                   connected, items, reqIdx, dbVars, healthy, tickHist,
                   auxVars, stopAt, pureVars, startVars, latest>>

\* ------------------------------------------------------------ main thread
\* main: "while not stop_event.is_set()" at the top of a tick.
TickTop ==
    /\ tpc = "top"
    /\ tpc' = IF stop THEN "exit" ELSE "probe"
    /\ UNCHANGED <<batch_size, connected, q, lock, stop, serialVars, items,
                   reqIdx, dbVars, healthy, tickHist, auxVars, stopAt,
                   pureVars, startVars, latest>>

\* Variant: the probe's result ignored.
after_probe_ignored(reachable) == "dequeue"

\* main: "if connected:" leads to dequeue_batch, otherwise to the tick sleep.
after_probe(reachable) == IF reachable = "yes" THEN "dequeue" ELSE "sleep"

\* db_is_reachable: true, or false on any error; it never raises.
Probe ==
    /\ tpc = "probe"
    /\ \E reachable \in {"yes", "no"} :
        /\ healthy => reachable = "yes"
        /\ connected' = reachable
        /\ tpc' = after_probe(reachable)
    /\ UNCHANGED <<batch_size, q, lock, stop, serialVars, items, reqIdx,
                   dbVars, healthy, tickHist, auxVars, stopAt, pureVars,
                   startVars, latest>>

\* q.dequeue_batch: wait for the lock.
DequeueAcquire ==
    /\ tpc = "dequeue"
    /\ LockFree(lock)
    /\ lock' = lock \cup {"main"}
    /\ tpc' = "dequeue_locked"
    /\ qBefore' = q
    /\ UNCHANGED <<batch_size, connected, q, stop, serialVars, items, reqIdx,
                   dbVars, healthy, sBefore, rBefore, auxVars, stopAt,
                   pureVars, startVars, latest>>

\* q.dequeue_batch: the loop under the lock, the release, and "if items";
\* with a batch in hand flush_queue is called next, on the stored rows as
\* they are now.
DequeueBatch ==
    /\ tpc = "dequeue_locked"
    /\ LET r == dequeue_batch(q, <<>>, batch_size)
       IN  /\ q' = r.q
           /\ items' = r.out
           /\ tpc' = IF r.out # <<>> THEN "connect" ELSE "len"
           /\ qBefore' = IF r.out # <<>> THEN qBefore ELSE <<>>
           /\ sBefore' = IF r.out # <<>> THEN sensorTab ELSE {}
           /\ rBefore' = IF r.out # <<>> THEN readingTab ELSE <<>>
    /\ lock' = lock \ {"main"}
    /\ UNCHANGED <<batch_size, connected, stop, serialVars, reqIdx, dbVars,
                   healthy, auxVars, stopAt, pureVars, startVars, latest>>

\* flush_queue: psycopg.connect(dsn, autocommit=False) and "set timezone".
FlushConnect ==
    /\ tpc = "connect"
    /\ txS' = sensorTab
    /\ txR' = readingTab
    /\ tpc' = "sensors"
    /\ UNCHANGED <<batch_size, connected, q, lock, stop, serialVars, items,
                   reqIdx, sensorTab, readingTab, healthy, tickHist, auxVars,
                   stopAt, pureVars, startVars, latest>>

\* flush_queue: ensure_sensors(conn, sensors)
FlushSensors ==
    /\ tpc = "sensors"
    /\ txS' = ensure_sensors(txS, [i \in 1..Len(items) |-> items[i].sensor])
    /\ tpc' = "readings"
    /\ UNCHANGED <<batch_size, connected, q, lock, stop, serialVars, items,
                   reqIdx, sensorTab, readingTab, txR, healthy, tickHist,
                   auxVars, stopAt, pureVars, startVars, latest>>

\* flush_queue: insert_readings(conn, readings)
FlushReadings ==
    /\ tpc = "readings"
    /\ txR' = insert_readings(txR, [i \in 1..Len(items) |-> items[i].reading])
    /\ tpc' = "commit"
    /\ UNCHANGED <<batch_size, connected, q, lock, stop, serialVars, items,
                   reqIdx, sensorTab, readingTab, txS, healthy, tickHist,
                   auxVars, stopAt, pureVars, startVars, latest>>

\* flush_queue: conn.commit() makes the transaction's rows the stored rows.
FlushCommit ==
    /\ tpc = "commit"
    /\ sensorTab' = txS
    /\ readingTab' = txR
    /\ tpc' = "close"
    /\ UNCHANGED <<batch_size, connected, q, lock, stop, serialVars, items,
                   reqIdx, txS, txR, healthy, tickHist, auxVars, stopAt,
                   pureVars, startVars, latest>>

\* flush_queue: the "with" block is left, the connection closed, and
\* len(items) returned; main logs the upload. items is not read again
\* before the next dequeue_batch assigns it, and is forgotten here.
FlushReturn ==
    /\ tpc = "close"
    /\ txS' = {}
    /\ txR' = <<>>
    /\ tpc' = "len"
    /\ items' = <<>>
    /\ qBefore' = <<>>
    /\ sBefore' = {}
    /\ rBefore' = <<>>
    /\ UNCHANGED <<batch_size, connected, q, lock, stop, serialVars, reqIdx,
                   sensorTab, readingTab, healthy, auxVars, stopAt, pureVars,
                   startVars, latest>>

\* len(q) in main's log call: wait for the lock.
LenAcquire ==
    /\ tpc = "len"
    /\ LockFree(lock)
    /\ lock' = lock \cup {"main"}
    /\ tpc' = "len_locked"
    /\ UNCHANGED <<batch_size, connected, q, stop, serialVars, items, reqIdx,
                   dbVars, healthy, tickHist, auxVars, stopAt, pureVars,
                   startVars, latest>>

\* InMemoryQueue.__len__: len(self._q) under the lock, and the release;
\* the tick sleep follows.
LenRelease ==
    /\ tpc = "len_locked"
    /\ lock' = lock \ {"main"}
    /\ tpc' = "sleep"
    /\ UNCHANGED <<batch_size, connected, q, stop, serialVars, items, reqIdx,
                   dbVars, healthy, tickHist, auxVars, stopAt, pureVars,
                   startVars, latest>>

\* The steps of flush_queue at which it can raise. At "close" the commit
\* has already taken effect: conn.commit() raises although the server
\* applied it (the acknowledgement is lost), or the connection breaks while
\* the "with" block is left.
FlushSteps == {"connect", "sensors", "readings", "commit", "close"}

\* Variant: a connection in autocommit mode, where every statement run
\* before the raise stays written.
rollback_keeps_writes(step, tab, tx) == IF step = "connect" THEN tab ELSE tx

\* What a raise inside flush_queue leaves of the open transaction: leaving
\* the "with" block with an exception rolls it back.
rollback(step, tab, tx) == tab

\* flush_queue raises; main enters "except Exception" and starts
\* "for it in reversed(items)".
FlushFail ==
    /\ tpc \in FlushSteps
    /\ ~healthy
    /\ sensorTab' = rollback(tpc, sensorTab, txS)
    /\ readingTab' = rollback(tpc, readingTab, txR)
    /\ txS' = {}
    /\ txR' = <<>>
    /\ reqIdx' = Len(items)
    /\ tpc' = "requeue"
    /\ sBefore' = {}
    /\ rBefore' = <<>>
    /\ UNCHANGED <<batch_size, connected, q, lock, stop, serialVars, items,
                   healthy, qBefore, auxVars, stopAt, pureVars, startVars,
                   latest>>

\* q.enqueue(it) of the requeue loop: wait for the lock.
RequeueAcquire ==
    /\ tpc = "requeue"
    /\ LockFree(lock)
    /\ lock' = lock \cup {"main"}
    /\ tpc' = "requeue_locked"
    /\ UNCHANGED <<batch_size, connected, q, stop, serialVars, items, reqIdx,
                   dbVars, healthy, tickHist, auxVars, stopAt, pureVars,
                   startVars, latest>>

\* Variant: the requeue loop enqueueing items[0] every time.
requeue_item_first(batch, left) == batch[1]

\* The next item of reversed(items) to enqueue.
requeue_item(batch, left) == batch[left]

\* q.enqueue(it) of the requeue loop: the append and the release; after the
\* last item, time.sleep(2.0) follows.
RequeueAppend ==
    /\ tpc = "requeue_locked"
    /\ q' = enqueue(q, requeue_item(items, reqIdx))
    /\ lock' = lock \ {"main"}
    /\ reqIdx' = reqIdx - 1
    /\ tpc' = IF reqIdx = 1 THEN "sleep_fail" ELSE "requeue"
    /\ UNCHANGED <<batch_size, connected, stop, serialVars, items, dbVars,
                   healthy, tickHist, auxVars, stopAt, pureVars, startVars,
                   latest>>

\* main: time.sleep(2.0) after the requeue loop. items is not read again
\* before the next dequeue_batch assigns it, and is forgotten here.
SleepFail ==
    /\ tpc = "sleep_fail"
    /\ tpc' = "sleep"
    /\ items' = <<>>
    /\ qBefore' = <<>>
    /\ UNCHANGED <<batch_size, connected, q, lock, stop, serialVars, reqIdx,
                   dbVars, healthy, sBefore, rBefore, auxVars, stopAt,
                   pureVars, startVars, latest>>

\* main: time.sleep(cfg["tick_seconds"]), then the next tick.
TickSleep ==
    /\ tpc = "sleep"
    /\ tpc' = "top"
    /\ connected' = "unset"
    /\ UNCHANGED <<batch_size, q, lock, stop, serialVars, items, reqIdx,
                   dbVars, healthy, tickHist, auxVars, stopAt, pureVars,
                   startVars, latest>>

\* Variant: no "except Exception" around the tick; the error ends the loop.
after_main_error_fatal(step) == "exit"

\* main: "except Exception" of the tick: "Main loop error" is logged and
\* time.sleep(1.0) starts.
after_main_error(step) == "err_sleep"

\* main: time.sleep(cfg["tick_seconds"]) raises (ValueError for a negative
\* TICK_SECONDS); the tick's "except Exception" takes over.
TickError ==
    /\ tpc = "sleep"
    /\ tpc' = after_main_error(tpc)
    /\ connected' = "unset"
    /\ UNCHANGED <<batch_size, q, lock, stop, serialVars, items, reqIdx,
                   dbVars, healthy, tickHist, auxVars, stopAt, pureVars,
                   startVars, latest>>

\* main: time.sleep(1.0) after "Main loop error" ends; the next tick.
ErrorSleep ==
    /\ tpc = "err_sleep"
    /\ tpc' = "top"
    /\ UNCHANGED <<batch_size, connected, q, lock, stop, serialVars, items,
                   reqIdx, dbVars, healthy, tickHist, auxVars, stopAt,
                   pureVars, startVars, latest>>

\* _handle_signal: stop_event.set()
HandleSignal ==
    /\ ~stop
    /\ stop' = TRUE
    /\ stopAt' = bpc
    /\ UNCHANGED <<batch_size, q, lock, serialVars, tpc, connected, items,
                   reqIdx, dbVars, healthy, tickHist, auxVars, pureVars,
                   startVars, latest>>

\* The uplink becomes stable: from here on every probe returns true and no
\* flush raises.
Heal ==
    /\ ~healthy
    /\ healthy' = TRUE
    /\ UNCHANGED <<batch_size, q, lock, stop, serialVars, tpc, connected,
                   items, reqIdx, dbVars, tickHist, auxVars, stopAt,
                   pureVars, startVars, latest>>

Next ==
    \/ SerialRead
    \/ SerialAcquire
    \/ SerialAppend
    \/ SerialLenAcquire
    \/ SerialLenRelease
    \/ SerialExit
    \/ TickTop
    \/ Probe
    \/ DequeueAcquire
    \/ DequeueBatch
    \/ FlushConnect
    \/ FlushSensors
    \/ FlushReadings
    \/ FlushCommit
    \/ FlushReturn
    \/ LenAcquire
    \/ LenRelease
    \/ FlushFail
    \/ RequeueAcquire
    \/ RequeueAppend
    \/ SleepFail
    \/ TickSleep
    \/ TickError
    \/ ErrorSleep
    \/ HandleSignal
    \/ Heal

Spec == Init /\ [][Next]_vars

\* The steps of the main thread, and the scheduling the threads get: a
\* runnable thread eventually runs.
MainStep ==
    \/ TickTop
    \/ Probe
    \/ DequeueAcquire
    \/ DequeueBatch
    \/ FlushConnect
    \/ FlushSensors
    \/ FlushReadings
    \/ FlushCommit
    \/ FlushReturn
    \/ LenAcquire
    \/ LenRelease
    \/ FlushFail
    \/ RequeueAcquire
    \/ RequeueAppend
    \/ SleepFail
    \/ TickSleep
    \/ TickError
    \/ ErrorSleep

SpecLive ==
    /\ Spec
    /\ WF_vars(MainStep)
    /\ WF_vars(SerialAppend)
    /\ WF_vars(SerialLenRelease)

\* ----------------------------------------------------------- relay thread
\* asyncio.sleep(3.0) after "not found" and after an error, in tenths of a
\* second.
RetryDelay == 30

\* uptime_s, downtime_s: max(0.1, mins * 60.0), in tenths of a second.
phase_ds(mins) == IF mins * 600 < 1 THEN 1 ELSE mins * 600

\* Variant: the switcher disabled only when all three settings are unusable.
start_bt_switcher_all(cfg) ==
    ~(cfg.up <= 0 /\ cfg.down <= 0 /\ cfg.mac \in {"none", ""})

\* start_bt_switcher: TRUE when it starts the thread, FALSE when it logs
\* "switcher disabled" and returns None.
start_bt_switcher(cfg) ==
    ~(cfg.up <= 0 \/ cfg.down <= 0 \/ cfg.mac \in {"none", ""})

\* The state of main when it calls start_bt_switcher, for every setting of
\* the relay's configuration.
InitBt ==
    /\ batch_size \in BatchSizes
    /\ q = <<>>
    /\ lock = {}
    /\ stop = FALSE
    /\ received = 0
    /\ now = 0
    /\ spc = "read"
    /\ cur = NoItem
    /\ tpc = "top"
    /\ connected = "unset"
    /\ items = <<>>
    /\ reqIdx = 0
    /\ sensorTab = {}
    /\ readingTab = <<>>
    /\ txS = {}
    /\ txR = <<>>
    /\ healthy = FALSE
    /\ qBefore = <<>>
    /\ sBefore = {}
    /\ rBefore = <<>>
    /\ btcfg \in [up : Mins, down : Mins, mac : Macs, bleak : BOOLEAN]
    /\ bpc = "init"
    /\ wire = <<>>
    /\ wseq = 0
    /\ bsleep = 0
    /\ stopAt = "unset"
    /\ latest = {}
    /\ ser = "open"
    /\ backoff_s = BackoffStart
    /\ raw = <<>>
    /\ ssleep = 0
    /\ lastFail = "none"
    /\ pktErr = FALSE
    /\ PureIdle
    /\ Started

\* main: start_bt_switcher(...) starts the "starlink-ble" thread or not.
StartBt ==
    /\ bpc = "init"
    /\ bpc' = IF start_bt_switcher(btcfg) THEN "entry" ELSE "disabled"
    /\ UNCHANGED <<coreVars, readerVars, btcfg, wire, wseq, bsleep, stopAt,
                   pureVars, startVars, latest>>

\* _bt_switch_loop: the two early returns before the loop.
BtEntry ==
    /\ bpc = "entry"
    /\ bpc' = IF ~btcfg.bleak \/ btcfg.mac \in {"none", ""}
              THEN "done" ELSE "top"
    /\ UNCHANGED <<coreVars, readerVars, btcfg, wire, wseq, bsleep, stopAt,
                   pureVars, startVars, latest>>

\* "while not stop_event.is_set()" of the outer loop.
BtTop ==
    /\ bpc = "top"
    /\ bpc' = IF stop THEN "done" ELSE "find"
    /\ UNCHANGED <<coreVars, readerVars, btcfg, wire, wseq, bsleep, stopAt,
                   pureVars, startVars, latest>>

\* BleakScanner.find_device_by_address returns a device or None; on None
\* the loop sleeps 3 s and continues.
BtFind ==
    /\ bpc = "find"
    /\ \E found \in BOOLEAN :
        /\ bpc' = IF found THEN "connect" ELSE "nf_sleep"
        /\ bsleep' = IF found THEN 0 ELSE RetryDelay
    /\ UNCHANGED <<coreVars, readerVars, btcfg, wire, wseq, stopAt, pureVars,
                   startVars, latest>>

\* The 3 s sleep after "not found" or after an error ends.
BtRetrySleep ==
    /\ bpc \in {"nf_sleep", "err_sleep"}
    /\ bpc' = "top"
    /\ bsleep' = 0
    /\ UNCHANGED <<coreVars, readerVars, btcfg, wire, wseq, stopAt, pureVars,
                   startVars, latest>>

\* "async with BleakClient(dev) as client": the connection is open.
BtConnect ==
    /\ bpc = "connect"
    /\ bpc' = "inner"
    /\ UNCHANGED <<coreVars, readerVars, btcfg, wire, wseq, bsleep, stopAt,
                   pureVars, startVars, latest>>

\* "while not stop_event.is_set()" of the schedule loop.
BtInnerTop ==
    /\ bpc = "inner"
    /\ bpc' = IF stop THEN "leave" ELSE "on_write"
    /\ UNCHANGED <<coreVars, readerVars, btcfg, wire, wseq, bsleep, stopAt,
                   pureVars, startVars, latest>>

\* ON phase: write_gatt_char(_on_now(password)) returns; the sleep starts.
BtWriteOn ==
    /\ bpc = "on_write"
    /\ wire' = RelayOn
    /\ wseq' = 1 - wseq
    /\ bsleep' = phase_ds(btcfg.up)
    /\ bpc' = "on_sleep"
    /\ UNCHANGED <<coreVars, readerVars, btcfg, stopAt, pureVars, startVars,
                   latest>>

\* Variant: no check of the stop event between the two phases.
after_on_sleep_unchecked(stopped) == "off_write"

\* "if stop_event.is_set(): break" after the ON phase's sleep.
after_on_sleep(stopped) == IF stopped THEN "leave" ELSE "off_write"

\* asyncio.sleep(uptime_s) ends.
BtOnSleep ==
    /\ bpc = "on_sleep"
    /\ bsleep' = 0
    /\ bpc' = after_on_sleep(stop)
    /\ UNCHANGED <<coreVars, readerVars, btcfg, wire, wseq, stopAt, pureVars,
                   startVars, latest>>

\* OFF phase: write_gatt_char(_off_now(password)) returns; the sleep starts.
BtWriteOff ==
    /\ bpc = "off_write"
    /\ wire' = RelayOff
    /\ wseq' = 1 - wseq
    /\ bsleep' = phase_ds(btcfg.down)
    /\ bpc' = "off_sleep"
    /\ UNCHANGED <<coreVars, readerVars, btcfg, stopAt, pureVars, startVars,
                   latest>>

\* asyncio.sleep(downtime_s) ends; back to the schedule loop's test.
BtOffSleep ==
    /\ bpc = "off_sleep"
    /\ bsleep' = 0
    /\ bpc' = "inner"
    /\ UNCHANGED <<coreVars, readerVars, btcfg, wire, wseq, stopAt, pureVars,
                   startVars, latest>>

\* The "async with" block is left after the schedule loop ended: disconnect.
BtLeave ==
    /\ bpc = "leave"
    /\ bpc' = "top"
    /\ UNCHANGED <<coreVars, readerVars, btcfg, wire, wseq, bsleep, stopAt,
                   pureVars, startVars, latest>>

\* The awaits inside the try block: each can raise.
BtFailSteps ==
    {"find", "connect", "on_write", "on_sleep", "off_write", "off_sleep",
     "leave"}

\* Variant: an error ends the controller.
after_bt_error_fatal(step) == "done"

\* "except Exception": log, then asyncio.sleep(3.0).
after_bt_error(step) == "err_sleep"

\* An await raises: the connection, if open, is torn down by the "async
\* with", and the except branch starts its sleep. A write that raised does
\* not count as written.
BtFail ==
    /\ bpc \in BtFailSteps
    /\ bpc' = after_bt_error(bpc)
    /\ bsleep' = RetryDelay
    /\ UNCHANGED <<coreVars, readerVars, btcfg, wire, wseq, stopAt, pureVars,
                   startVars, latest>>

\* The steps of the relay thread.
BtStep ==
    \/ StartBt
    \/ BtEntry
    \/ BtTop
    \/ BtFind
    \/ BtRetrySleep
    \/ BtConnect
    \/ BtInnerTop
    \/ BtWriteOn
    \/ BtOnSleep
    \/ BtWriteOff
    \/ BtOffSleep
    \/ BtLeave
    \/ BtFail

NextBt ==
    \/ StartBt
    \/ BtEntry
    \/ BtTop
    \/ BtFind
    \/ BtRetrySleep
    \/ BtConnect
    \/ BtInnerTop
    \/ BtWriteOn
    \/ BtOnSleep
    \/ BtWriteOff
    \/ BtOffSleep
    \/ BtLeave
    \/ BtFail
    \/ HandleSignal

\* The relay controller on its own, with the signal handler.
SpecBt == InitBt /\ [][NextBt]_vars

\* The relay thread keeps running: every await returns or raises.
SpecBtLive == SpecBt /\ WF_vars(BtStep)

\* ---------------------------------------------------------- serial reader
\* start_serial_reader._run in full: open, read, parse, hand on, back off.
\* Position "read" is the test of the inner loop.
InitSerial ==
    /\ batch_size \in BatchSizes
    /\ q = <<>>
    /\ lock = {}
    /\ stop = FALSE
    /\ received = 0
    /\ now = 0
    /\ spc = "otop"
    /\ cur = NoItem
    /\ tpc = "top"
    /\ connected = "unset"
    /\ items = <<>>
    /\ reqIdx = 0
    /\ sensorTab = {}
    /\ readingTab = <<>>
    /\ txS = {}
    /\ txR = <<>>
    /\ healthy = FALSE
    /\ qBefore = <<>>
    /\ sBefore = {}
    /\ rBefore = <<>>
    /\ btcfg = NoRelay
    /\ bpc = "disabled"
    /\ wire = <<>>
    /\ wseq = 0
    /\ bsleep = 0
    /\ stopAt = "unset"
    /\ latest = {}
    /\ ser = "closed"
    /\ backoff_s = BackoffStart
    /\ raw = <<>>
    /\ ssleep = 0
    /\ lastFail = "none"
    /\ pktErr = FALSE
    /\ PureIdle
    /\ Started

\* "while not stop_event.is_set()" of the outer loop.
SrOuterTop ==
    /\ spc = "otop"
    /\ spc' = IF stop THEN "done" ELSE "open"
    /\ UNCHANGED <<batch_size, q, lock, stop, received, now, cur, tpc,
                   connected, items, reqIdx, dbVars, healthy, tickHist,
                   relayVars, stopAt, readerVars, pureVars, startVars, latest>>

\* open_serial returns the handle; backoff_s = 1.0.
SrOpenOk ==
    /\ spc = "open"
    /\ ser' = "open"
    /\ backoff_s' = BackoffStart
    /\ lastFail' = "none"
    /\ pktErr' = FALSE
    /\ spc' = "read"
    /\ UNCHANGED <<batch_size, q, lock, stop, received, now, cur, tpc,
                   connected, items, reqIdx, dbVars, healthy, tickHist,
                   relayVars, stopAt, raw, ssleep, pureVars, startVars,
                   latest>>

\* open_serial raises SerialException or OSError: time.sleep(backoff_s).
SrOpenFail ==
    /\ spc = "open"
    /\ lastFail' = "open"
    /\ ssleep' = backoff_s
    /\ spc' = "backoff"
    /\ UNCHANGED <<batch_size, q, lock, stop, received, now, cur, tpc,
                   connected, items, reqIdx, dbVars, healthy, tickHist,
                   relayVars, stopAt, ser, backoff_s, raw, pktErr, pureVars,
                   startVars, latest>>

\* Variant: the backoff doubled without a ceiling.
next_backoff_uncapped(b) == b * 2

\* min(backoff_s * 2.0, 30.0)
next_backoff(b) == Min(b * 2, BackoffCap)

\* The sleep ends; backoff_s = min(backoff_s * 2.0, 30.0).
SrBackoff ==
    /\ spc = "backoff"
    /\ ssleep' = 0
    /\ backoff_s' = next_backoff(backoff_s)
    /\ lastFail' = "none"
    /\ spc' = "otop"
    /\ UNCHANGED <<batch_size, q, lock, stop, received, now, cur, tpc,
                   connected, items, reqIdx, dbVars, healthy, tickHist,
                   relayVars, stopAt, ser, raw, pktErr, pureVars, startVars,
                   latest>>

\* "while not stop_event.is_set()" of the inner loop.
SrInnerTop ==
    /\ spc = "read"
    /\ ser = "open"
    /\ raw = <<>>
    /\ spc' = IF stop THEN "close" ELSE "readline"
    /\ UNCHANGED <<batch_size, q, lock, stop, received, now, cur, tpc,
                   connected, items, reqIdx, dbVars, healthy, tickHist,
                   relayVars, stopAt, readerVars, pureVars, startVars, latest>>

\* ser.readline() returns a line, or nothing after its timeout; "if not
\* raw: continue".
SrReadLine ==
    /\ spc = "readline"
    /\ \E line \in DeviceLines :
        /\ received < MaxPackets \/ ~DeviceYields[line][received + 1]
        /\ raw' = line
        /\ spc' = IF line = <<>> THEN "read" ELSE "parse"
    /\ UNCHANGED <<batch_size, q, lock, stop, received, now, cur, tpc,
                   connected, items, reqIdx, dbVars, healthy, tickHist,
                   relayVars, stopAt, ser, backoff_s, ssleep, lastFail,
                   pktErr, pureVars, startVars, latest>>

\* ser.readline() raises: "Serial read error" is logged, then "break".
SrReadFail ==
    /\ spc = "readline"
    /\ lastFail' = "read"
    /\ spc' = "close"
    /\ UNCHANGED <<batch_size, q, lock, stop, received, now, cur, tpc,
                   connected, items, reqIdx, dbVars, healthy, tickHist,
                   relayVars, stopAt, ser, backoff_s, raw, ssleep, pktErr,
                   pureVars, startVars, latest>>

\* Variant: the exception of on_packet leaves the "with" block.
after_on_packet_error_fatal(step) == "close"

\* "except Exception" around on_packet(pkt): logged; the loop goes on.
after_on_packet_error(step) == "read"

\* _run: the sleep after an exception that is no serial error, in seconds.
UnexpectedDelay == 2

\* parse_line_to_packet, "if not pkt: continue", and on_packet up to
\* q.enqueue: the parser raises (the "with" block is left and the outer
\* "except Exception" sleeps), or translate_packet raises or yields the
\* item.
SrHandleLine ==
    /\ spc = "parse"
    /\ LET pkt == DeviceParse[raw][received + 1]
       IN  IF pkt.obj = "raise"
           THEN /\ ser' = "closed"
                /\ ssleep' = UnexpectedDelay
                /\ spc' = "unexpected"
                /\ UNCHANGED <<cur, now, received, pktErr, latest>>
           ELSE IF not_pkt(pkt)
           THEN /\ spc' = "read"
                /\ UNCHANGED <<cur, now, received, pktErr, ser, ssleep,
                               latest>>
           ELSE IF encode_raises(resolve_name(pkt.fields))
           THEN /\ spc' = after_on_packet_error(spc)
                /\ pktErr' = TRUE
                /\ UNCHANGED <<cur, now, received, ser, ssleep, latest>>
           ELSE /\ cur' = translate_packet(received + 1, pkt.fields, now + 1)
                /\ latest' = received_last(latest, cur'.sensor)
                /\ now' = now + 1
                /\ received' = received + 1
                /\ spc' = "enqueue"
                /\ UNCHANGED <<pktErr, ser, ssleep>>
    /\ raw' = <<>>
    /\ UNCHANGED <<batch_size, q, lock, stop, tpc, connected, items, reqIdx,
                   dbVars, healthy, tickHist, relayVars, stopAt, backoff_s,
                   lastFail, pureVars, startVars>>

\* "except Exception" of the outer loop: time.sleep(2.0) ends, and the
\* loop goes on with the backoff unchanged.
SrUnexpected ==
    /\ spc = "unexpected"
    /\ ssleep' = 0
    /\ spc' = "otop"
    /\ UNCHANGED <<batch_size, q, lock, stop, received, now, cur, tpc,
                   connected, items, reqIdx, dbVars, healthy, tickHist,
                   relayVars, stopAt, ser, backoff_s, raw, lastFail, pktErr,
                   pureVars, startVars, latest>>

\* The "with open_serial(...) as ser" block is left: the handle is closed.
SrClose ==
    /\ spc = "close"
    /\ ser' = "closed"
    /\ spc' = "otop"
    /\ UNCHANGED <<batch_size, q, lock, stop, received, now, cur, tpc,
                   connected, items, reqIdx, dbVars, healthy, tickHist,
                   relayVars, stopAt, backoff_s, raw, ssleep, lastFail,
                   pktErr, pureVars, startVars, latest>>

NextSerial ==
    \/ SrOuterTop
    \/ SrOpenOk
    \/ SrOpenFail
    \/ SrBackoff
    \/ SrInnerTop
    \/ SrReadLine
    \/ SrReadFail
    \/ SrHandleLine
    \/ SrUnexpected
    \/ SerialAcquire
    \/ SerialAppend
    \/ SerialLenAcquire
    \/ SerialLenRelease
    \/ SrClose
    \/ HandleSignal

\* The serial reader thread on its own, with the signal handler.
SpecSerial == InitSerial /\ [][NextSerial]_vars

\* ------------------------------------------------------------ whole program
\* main from its first line: configuration, device lookup, queue, signal
\* handlers, the two daemon threads, the tick loop, the return and the end
\* of the process.

\* Variant: only an unset DATABASE_URL is a configuration error.
load_config_unset_only(e) ==
    IF e.db_url = "none" \/ ~e.mins_numeric THEN "raise" ELSE "ok"

\* load_config: RuntimeError when DATABASE_URL is unset or empty, ValueError
\* from float() when a STARLINK_*_MINS setting is not a number.
load_config(e) ==
    IF e.db_url \in {"none", ""} \/ ~e.mins_numeric THEN "raise" ELSE "ok"

\* find_serial_port: the explicit path when it exists, else the first match
\* of the glob patterns, else FileNotFoundError.
find_serial_port(e) ==
    IF e.serial_port # "none" /\ e.serial_port \in e.devices
    THEN e.serial_port
    ELSE IF e.devices \cap GlobPaths # {}
         THEN CHOOSE p \in e.devices \cap GlobPaths : TRUE
         ELSE "raise"

\* The relay settings of a run: switcher disabled, switcher running, and
\* switcher started without the bleak package.
RunRelayCfgs ==
    {NoRelay,
     [up |-> 1, down |-> 1, mac |-> "C8:47:80:00:00:01", bleak |-> TRUE],
     [up |-> 1, down |-> 1, mac |-> "C8:47:80:00:00:01", bleak |-> FALSE]}

\* The process at the first line of main; the batch size is large enough
\* for a tick to take the whole queue.
InitRun ==
    /\ batch_size = MaxPackets
    /\ q = <<>>
    /\ lock = {}
    /\ stop = FALSE
    /\ received = 0
    /\ now = 0
    /\ spc = "unstarted"
    /\ cur = NoItem
    /\ tpc = "load_config"
    /\ connected = "unset"
    /\ items = <<>>
    /\ reqIdx = 0
    /\ sensorTab = {}
    /\ readingTab = <<>>
    /\ txS = {}
    /\ txR = <<>>
    /\ healthy = FALSE
    /\ qBefore = <<>>
    /\ sBefore = {}
    /\ rBefore = <<>>
    /\ btcfg \in RunRelayCfgs
    /\ bpc = "unstarted"
    /\ wire = <<>>
    /\ wseq = 0
    /\ bsleep = 0
    /\ stopAt = "unset"
    /\ latest = {}
    /\ ser = "closed"
    /\ backoff_s = BackoffStart
    /\ raw = <<>>
    /\ ssleep = 0
    /\ lastFail = "none"
    /\ pktErr = FALSE
    /\ PureIdle
    /\ env \in Envs
    /\ exitCode = NoStatus
    /\ made = {}

\* main: "cfg = load_config()", "return 2" on any exception.
LoadConfig ==
    /\ tpc = "load_config"
    /\ IF load_config(env) = "raise"
       THEN exitCode' = 2 /\ tpc' = "returned"
       ELSE exitCode' = exitCode /\ tpc' = "find_port"
    /\ UNCHANGED <<batch_size, q, lock, stop, serialVars, connected, items,
                   reqIdx, dbVars, healthy, tickHist, auxVars, stopAt,
                   pureVars, env, made, latest>>

\* main: "serial_path = find_serial_port(...)", "return 3" on any exception.
FindSerialPort ==
    /\ tpc = "find_port"
    /\ IF find_serial_port(env) = "raise"
       THEN exitCode' = 3 /\ tpc' = "returned"
       ELSE exitCode' = exitCode /\ tpc' = "make_queue"
    /\ UNCHANGED <<batch_size, q, lock, stop, serialVars, connected, items,
                   reqIdx, dbVars, healthy, tickHist, auxVars, stopAt,
                   pureVars, env, made, latest>>

\* main: "q = InMemoryQueue()", "stop_event = threading.Event()".
MakeQueue ==
    /\ tpc = "make_queue"
    /\ q' = <<>>
    /\ stop' = FALSE
    /\ made' = made \cup {"queue", "stop_event"}
    /\ tpc' = "signals"
    /\ UNCHANGED <<batch_size, lock, serialVars, connected, items, reqIdx,
                   dbVars, healthy, tickHist, auxVars, stopAt, pureVars,
                   env, exitCode, latest>>

\* main: signal.signal(SIGINT, ...), signal.signal(SIGTERM, ...).
InstallSignals ==
    /\ tpc = "signals"
    /\ made' = made \cup {"signals"}
    /\ tpc' = "start_reader"
    /\ UNCHANGED <<batch_size, q, lock, stop, serialVars, connected, items,
                   reqIdx, dbVars, healthy, tickHist, auxVars, stopAt,
                   pureVars, env, exitCode, latest>>

\* main: start_serial_reader(...) starts the daemon thread "serial-reader".
StartSerialReader ==
    /\ tpc = "start_reader"
    /\ spc' = "otop"
    /\ made' = made \cup {"serial-reader"}
    /\ tpc' = "start_bt"
    /\ UNCHANGED <<batch_size, q, lock, stop, received, now, cur, connected,
                   items, reqIdx, dbVars, healthy, tickHist, auxVars, stopAt,
                   pureVars, env, exitCode, latest>>

\* main: start_bt_switcher(...) starts the daemon thread "starlink-ble" or
\* not; the tick loop follows.
MainStartBt ==
    /\ tpc = "start_bt"
    /\ bpc' = IF start_bt_switcher(btcfg) THEN "entry" ELSE "disabled"
    /\ made' = made \cup {"switcher"}
    /\ tpc' = "top"
    /\ UNCHANGED <<batch_size, q, lock, stop, serialVars, connected, items,
                   reqIdx, dbVars, healthy, tickHist, btcfg, wire, wseq,
                   bsleep, readerVars, stopAt, pureVars, env, exitCode,
                   latest>>

\* SIGINT or SIGTERM delivered once the handlers are installed and while
\* the process lives.
Signal ==
    /\ "signals" \in made
    /\ tpc # "exited"
    /\ ~stop
    /\ stop' = TRUE
    /\ UNCHANGED <<batch_size, q, lock, serialVars, tpc, connected, items,
                   reqIdx, dbVars, healthy, tickHist, auxVars, stopAt,
                   pureVars, startVars, latest>>

\* main: "return 0" after the tick loop.
MainReturn ==
    /\ tpc = "exit"
    /\ exitCode' = 0
    /\ tpc' = "returned"
    /\ UNCHANGED <<batch_size, q, lock, stop, serialVars, connected, items,
                   reqIdx, dbVars, healthy, tickHist, auxVars, stopAt,
                   pureVars, env, made, latest>>

\* A daemon thread when the interpreter shuts down: it is not joined and
\* stops wherever it is.
at_exit(pc, ended) == IF pc \in ended THEN pc ELSE "killed"

\* "sys.exit(main())": the process ends with main's status.
ProcessExit ==
    /\ tpc = "returned"
    /\ tpc' = "exited"
    /\ spc' = at_exit(spc, {"unstarted", "done"})
    /\ bpc' = at_exit(bpc, {"unstarted", "disabled", "done"})
    /\ UNCHANGED <<batch_size, q, lock, stop, received, now, cur, connected,
                   items, reqIdx, dbVars, healthy, tickHist, btcfg, wire,
                   wseq, bsleep, readerVars, stopAt, pureVars, startVars,
                   latest>>

\* The steps of the main thread from the first line of main to the end of
\* the process.
RunMainStep ==
    \/ LoadConfig
    \/ FindSerialPort
    \/ MakeQueue
    \/ InstallSignals
    \/ StartSerialReader
    \/ MainStartBt
    \/ MainStep
    \/ MainReturn
    \/ ProcessExit

\* The steps of the serial reader thread.
SrStep ==
    \/ SrOuterTop
    \/ SrOpenOk
    \/ SrOpenFail
    \/ SrBackoff
    \/ SrInnerTop
    \/ SrReadLine
    \/ SrReadFail
    \/ SrHandleLine
    \/ SrUnexpected
    \/ SerialAcquire
    \/ SerialAppend
    \/ SerialLenAcquire
    \/ SerialLenRelease
    \/ SrClose

\* The steps of the relay thread once started.
BtRunStep ==
    \/ BtEntry
    \/ BtTop
    \/ BtFind
    \/ BtRetrySleep
    \/ BtConnect
    \/ BtInnerTop
    \/ BtWriteOn
    \/ BtOnSleep
    \/ BtWriteOff
    \/ BtOffSleep
    \/ BtLeave
    \/ BtFail

NextRun ==
    \/ RunMainStep
    \/ SrStep
    \/ BtRunStep
    \/ Signal

SpecRun == InitRun /\ [][NextRun]_vars

\* Every thread that can run eventually runs, and every blocking call
\* returns or raises.
SpecRunLive ==
    /\ SpecRun
    /\ WF_vars(RunMainStep)
    /\ WF_vars(SrStep)
    /\ WF_vars(BtRunStep)

\* ------------------------------------------------------------ frame codec
\* _frame applied to bounded arguments, and one byte of the result changed
\* on its way to the relay.
MaxContent == 2
Passwords == {0, 1234, 65535}
Opcodes == {OpOn, OpOff, 255}
ContentBytes == {0, 1, 255}
Contents == UNION {[1..n -> ContentBytes] : n \in 0..MaxContent}
Bytes == 0..255

InitFrame ==
    /\ batch_size \in BatchSizes
    /\ q = <<>>
    /\ lock = {}
    /\ stop = FALSE
    /\ received = 0
    /\ now = 0
    /\ spc = "read"
    /\ cur = NoItem
    /\ tpc = "top"
    /\ connected = "unset"
    /\ items = <<>>
    /\ reqIdx = 0
    /\ sensorTab = {}
    /\ readingTab = <<>>
    /\ txS = {}
    /\ txR = <<>>
    /\ healthy = FALSE
    /\ qBefore = <<>>
    /\ sBefore = {}
    /\ rBefore = <<>>
    /\ btcfg = NoRelay
    /\ bpc = "disabled"
    /\ wire = <<>>
    /\ wseq = 0
    /\ bsleep = 0
    /\ stopAt = "unset"
    /\ latest = {}
    /\ ser = "open"
    /\ backoff_s = BackoffStart
    /\ raw = <<>>
    /\ ssleep = 0
    /\ lastFail = "none"
    /\ pktErr = FALSE
    /\ fin \in [password : Passwords, opcode : Opcodes, content : Contents]
    /\ fout = <<>>
    /\ fpos = 0
    /\ ParseIdle
    /\ TransIdle
    /\ Started

\* _frame(password, opcode, content)
Encode ==
    /\ fout = <<>>
    /\ fout' = frame(fin.password, fin.opcode, fin.content)
    /\ UNCHANGED <<coreVars, auxVars, stopAt, fin, fpos, parseVars,
                   transVars, startVars, latest>>

\* One byte of the encoded frame takes a different value.
Tamper ==
    /\ fout # <<>>
    /\ fpos = 0
    /\ \E i \in 1..Len(fout) :
        \E b \in Bytes \ {fout[i]} :
            /\ fout' = [fout EXCEPT ![i] = b]
            /\ fpos' = i
    /\ UNCHANGED <<coreVars, auxVars, stopAt, fin, parseVars, transVars,
                   startVars, latest>>

NextFrame ==
    \/ Encode
    \/ Tamper

SpecFrame == InitFrame /\ [][NextFrame]_vars

\* ----------------------------------------------------------- pure functions
\* parse_line_to_packet and translate_packet called on their own, on every
\* argument up to a bound, with the program at rest.
MaxLineLen == 5
Lines == UNION {[1..n -> Pieces] : n \in 0..MaxLineLen}

ProgramIdle ==
    /\ batch_size \in BatchSizes
    /\ q = <<>>
    /\ lock = {}
    /\ stop = FALSE
    /\ received = 0
    /\ now = 0
    /\ spc = "read"
    /\ cur = NoItem
    /\ tpc = "top"
    /\ connected = "unset"
    /\ items = <<>>
    /\ reqIdx = 0
    /\ sensorTab = {}
    /\ readingTab = <<>>
    /\ txS = {}
    /\ txR = <<>>
    /\ healthy = FALSE
    /\ qBefore = <<>>
    /\ sBefore = {}
    /\ rBefore = <<>>
    /\ btcfg = NoRelay
    /\ bpc = "disabled"
    /\ wire = <<>>
    /\ wseq = 0
    /\ bsleep = 0
    /\ stopAt = "unset"
    /\ latest = {}
    /\ ser = "open"
    /\ backoff_s = BackoffStart
    /\ raw = <<>>
    /\ ssleep = 0
    /\ lastFail = "none"
    /\ pktErr = FALSE
    /\ Started

InitParse ==
    /\ ProgramIdle
    /\ FrameIdle
    /\ TransIdle
    /\ pin \in Lines
    /\ pout = NoResult

\* parse_line_to_packet(line)
Parse ==
    /\ pout = NoResult
    /\ pout' = parse_line_to_packet(pin, 1)
    /\ UNCHANGED <<coreVars, auxVars, stopAt, frameVars, pin, transVars,
                   startVars, latest>>

NextParse == Parse

SpecParse == InitParse /\ [][NextParse]_vars

\* A key the packet does not have.
Absent == [t |-> "absent", v |-> 0]

\* The values a packet can give its fields: strings (empty or not),
\* numbers, booleans, null, or no such key.
NameValues == {JStr(<<97>>), JStr(<<98>>), JStr(<<>>), JNum(7), Absent}
SensorIdValues == {JNum(7), JStr(<<55>>), JNull, Absent}
CoordValues == {JNum(45), JBool(TRUE), JStr(<<52, 53>>), JNull, Absent}
TypeValues == {JStr("soil"), JNum(1), Absent}

\* The dict with the keys whose value is not Absent.
PacketOf(choice) ==
    [k \in {key \in DOMAIN choice : choice[key] # Absent} |-> choice[k]]

Packets ==
    {PacketOf(c) : c \in [name : NameValues, sensor_id : SensorIdValues,
                          gps_lat : CoordValues, gps_long : CoordValues,
                          sensor_type : TypeValues]}

\* Readings of the clock.
MaxClock == 2

InitTranslate ==
    /\ ProgramIdle
    /\ FrameIdle
    /\ ParseIdle
    /\ tin \in Packets
    /\ tout = NoItem

\* translate_packet(pkt); the clock is read once in every call.
Translate ==
    /\ now < MaxClock
    /\ now' = now + 1
    /\ tout' = translate_packet(1, tin, now + 1)
    /\ UNCHANGED <<batch_size, q, lock, stop, received, spc, cur, tpc,
                   connected, items, reqIdx, dbVars, healthy, tickHist,
                   auxVars, stopAt, frameVars, parseVars, tin, startVars,
                   latest>>

NextTranslate == Translate

SpecTranslate == InitTranslate /\ [][NextTranslate]_vars

\* ------------------------------------------------------- derived notions
\* How often the item with identity id occurs in a sequence of items.
Occ(id, seq) == Cardinality({i \in 1..Len(seq) : seq[i].id = id})

\* The in-flight batch: the items the tick has dequeued and has neither
\* committed nor put back yet.
Held ==
    IF tpc \in {"connect", "sensors", "readings", "commit"} THEN items
    ELSE IF tpc \in {"requeue", "requeue_locked"} THEN SubSeq(items, 1, reqIdx)
    ELSE <<>>

\* The reading of packet id is a committed row.
Stored(id) ==
    \E i \in 1..Len(readingTab) : readingTab[i].sequence = JNum(id)

\* The items whose enqueue by on_packet has completed.
EnqueuedIds == {id \in Ids : id <= received /\ cur.id # id}

\* A reading table holds at most one row per (sensor_id, ts).
OneRowPerKey(tab) ==
    \A i, j \in 1..Len(tab) :
        (tab[i].sensor_id = tab[j].sensor_id /\ tab[i].ts = tab[j].ts) => i = j

\* The positions of the queue that hold items of the tick's batch.
BatchPositions ==
    {i \in 1..Len(q) : \E j \in 1..Len(items) : q[i].id = items[j].id}

TypeOK ==
    /\ lock \subseteq {"serial", "main"}
    /\ received \in 0..MaxPackets
    /\ Len(q) <= MaxPackets

\* ----------------------------------------------------------------- claims

\* C1: when flush_queue raised in a tick and the requeue loop has finished
\* with no packet enqueued meanwhile, the queue equals the queue right before
\* that tick's dequeue_batch (same items, same order).
C1_QueueRestoredAfterFailedFlush ==
    (tpc = "sleep_fail" /\ Len(q) = Len(qBefore)) => q = qBefore

\* C2: after a failed flush the re-enqueued batch is at the front of the
\* queue, in its original order, ahead of every other queued item.
C2_RetriedItemsAtFront ==
    tpc = "sleep_fail" =>
        /\ Len(q) >= Len(items)
        /\ SubSeq(q, 1, Len(items)) = items

\* C3: re-enqueueing a failed batch is atomic: whenever the main thread does
\* not hold the lock the queue holds none or all of the failed batch, and no
\* other item ever lies between two re-enqueued items.
C3_RequeueAtomic ==
    tpc \in {"requeue", "requeue_locked", "sleep_fail"} =>
        /\ "main" \notin lock => Cardinality(BatchPositions) \in {0, Len(items)}
        /\ \A i, k \in BatchPositions : \A m \in i..k : m \in BatchPositions

\* C4 as stated: every enqueued item is in exactly one of the queue, the
\* in-flight batch and committed storage.
C4_ExactlyOnePlace ==
    \A id \in EnqueuedIds :
        Occ(id, q) + Occ(id, Held) + (IF Stored(id) THEN 1 ELSE 0) = 1

\* C4 as amended: every enqueued item is in the queue or the in-flight batch
\* at most once in total, and an item that is in neither is in committed
\* storage (it left only through a flush whose commit took effect); an item
\* whose flush raised after the commit is in storage and queued again.
C4_NeverLostNeverQueuedTwice ==
    \A id \in EnqueuedIds :
        /\ Occ(id, q) + Occ(id, Held) <= 1
        /\ Occ(id, q) + Occ(id, Held) = 0 => Stored(id)

C4_Witness ==
    \E id \in EnqueuedIds : Stored(id) /\ Occ(id, q) = 1 /\ tpc = "sleep_fail"

\* C5: every enqueue by the serial thread adds exactly its own item, every
\* dequeue_batch moves each item it takes from the queue to its result
\* exactly once, and no step of one thread changes the queue while the other
\* thread is inside the lock.
C5_EnqueueDequeueKeepItems ==
    [][/\ \A id \in Ids :
            /\ (spc = "append" /\ spc' # spc) =>
                  Occ(id, q') = Occ(id, q) + (IF cur.id = id THEN 1 ELSE 0)
            /\ (tpc = "dequeue_locked" /\ tpc' # tpc) =>
                  /\ Occ(id, q') + Occ(id, items') = Occ(id, q)
                  /\ Occ(id, items') <= 1
       /\ ("serial" \in lock /\ spc' = spc) => q' = q
       /\ ("main" \in lock /\ tpc' = tpc) => q' = q]_vars

C5_Witness ==
    /\ tpc = "connect"
    /\ items # <<>>
    /\ spc = "read"
    /\ Len(q) + Len(items) > Len(qBefore)

\* C6: dequeue_batch(n) on a queue of k items returns the min(n, k) oldest
\* items in enqueue order and leaves the other k - min(n, k) in their order.
C6_DequeueBatchOldestFirst ==
    [][(tpc = "dequeue_locked" /\ tpc' # tpc) =>
          LET k == Len(q)
              m == Min(batch_size, k)
          IN  /\ items' = SubSeq(q, 1, m)
              /\ q' = SubSeq(q, m + 1, k)]_vars

C6_Witness ==
    /\ tpc = "connect"
    /\ Len(qBefore) > batch_size
    /\ Len(items) = batch_size
    /\ q # <<>>

\* C7: once probe and flush no longer fail, every item that is queued or in
\* flight is eventually a committed row, unless stop is set.
C7_EveryItemEventuallyPersisted ==
    \A id \in Ids :
        (healthy /\ Occ(id, q) + Occ(id, Held) > 0) ~> (Stored(id) \/ stop)

C7_Witness ==
    /\ healthy
    /\ ~stop
    /\ tpc = "close"
    /\ Len(items) = 2
    /\ items[1].id > items[2].id
    /\ \A id \in Ids : Stored(id)

\* C8: the committed reading table, and the table as the open transaction
\* sees it, hold at most one row per (sensor_id, ts), also after a batch
\* that is already stored was flushed again.
C8_OneReadingPerKey == OneRowPerKey(readingTab) /\ OneRowPerKey(txR)

C8_Witness ==
    /\ tpc = "commit"
    /\ \E i \in 1..Len(items) : Stored(items[i].id)

\* C9 as stated: whenever flush_queue raises, at whatever step, the stored
\* rows are what they were when it was called.
C9_FailedFlushLeavesStorage ==
    [][(tpc \in FlushSteps /\ tpc' = "requeue") =>
          (sensorTab' = sBefore /\ readingTab' = rBefore)]_vars

\* C9 as amended: no step of flush_queue before the commit changes the
\* stored rows; when flush_queue raises before its commit took effect the
\* stored rows are what they were when it was called, and when it raises
\* after the commit took effect the stored rows are the committed
\* transaction's, with a reading row for every item of the batch and a
\* sensor row for every hardware_id of the batch: never a part of the batch.
C9_FailedFlushAllOrNothing ==
    [][/\ tpc \in {"connect", "sensors", "readings"} =>
            (sensorTab' = sensorTab /\ readingTab' = readingTab)
       /\ (tpc \in FlushSteps \ {"close"} /\ tpc' = "requeue") =>
            (sensorTab' = sBefore /\ readingTab' = rBefore)
       /\ (tpc = "close" /\ tpc' = "requeue") =>
            /\ sensorTab' = txS /\ readingTab' = txR
            /\ \A i \in 1..Len(items) :
                  /\ \E r \in 1..Len(readingTab') :
                        /\ readingTab'[r].sensor_id = items[i].reading.sensor_id
                        /\ readingTab'[r].ts = items[i].reading.ts
                  /\ \E t \in sensorTab' :
                        t.hardware_id = items[i].sensor.hardware_id]_vars

C9_Witness ==
    /\ tpc = "requeue"
    /\ reqIdx = Len(items)
    /\ Len(items) = 2
    /\ \A i \in 1..Len(items) : ~Stored(items[i].id)
    /\ sensorTab = {}

\* C10: in a tick whose probe returned false the main thread goes straight
\* to the tick sleep: it takes no lock, dequeues nothing and opens no
\* transaction, the stored rows stay as they are, and the queue changes only
\* by the serial thread's appends.
C10_UnreachableTickTouchesNothing ==
    [][connected' = "no" =>
          /\ tpc \in {"probe", "sleep"}
          /\ tpc' = "sleep"
          /\ "main" \notin lock'
          /\ items' = <<>>
          /\ sensorTab' = sensorTab /\ readingTab' = readingTab
          /\ (q' = q \/ (spc = "append" /\ q' = Append(q, cur)))]_vars

C10_Witness ==
    /\ connected = "no"
    /\ tpc = "sleep"
    /\ Len(q) >= 2

\* The hardware ids of a batch.
BatchHw(batch) == {batch[i].sensor.hardware_id : i \in 1..Len(batch)}

\* The rows of a sensor table whose hardware_id is in hw.
RowsOf(tab, hw) == {r \in tab : r.hardware_id \in hw}

\* The items of a batch that have no row in a reading table.
Fresh(batch, tab) ==
    {i \in 1..Len(batch) :
        \A r \in 1..Len(tab) :
            ~(/\ tab[r].sensor_id = batch[i].reading.sensor_id
              /\ tab[r].ts = batch[i].reading.ts)}

\* A tick that found at most batch_size items queued and saw no packet
\* arrive: its batch is the whole queue of before, and the queue is empty.
QuietFullTick == Len(qBefore) <= batch_size /\ items = qBefore /\ q = <<>>

\* C11 as stated: a dequeue that finds at most batch_size items empties the
\* queue, and when the flush of a tick without arrivals commits, the sensor
\* table holds exactly one row per distinct hardware_id of the batch and the
\* reading table has grown by one row per item.
C11_QuietTickStoresBatch ==
    [][/\ (tpc = "dequeue_locked" /\ tpc' # tpc /\ Len(q) <= batch_size) =>
            (q' = <<>> /\ items' = q)
       /\ (tpc = "commit" /\ tpc' = "close" /\ QuietFullTick) =>
            /\ q' = <<>>
            /\ Cardinality(RowsOf(sensorTab', BatchHw(items))) =
                  Cardinality(BatchHw(items))
            /\ Len(readingTab') = Len(readingTab) + Len(items)]_vars

\* C11 as amended: as above, but the reading table grows by one row per
\* item that had no row yet; an item that is already stored (it was
\* re-enqueued after a flush that raised once its commit had taken effect)
\* adds no row. Afterwards every item of the batch has a reading row, and
\* the rows of before are kept.
C11_QuietTickStoresFreshItems ==
    [][/\ (tpc = "dequeue_locked" /\ tpc' # tpc /\ Len(q) <= batch_size) =>
            (q' = <<>> /\ items' = q)
       /\ (tpc = "commit" /\ tpc' = "close" /\ QuietFullTick) =>
            /\ q' = <<>>
            /\ Cardinality(RowsOf(sensorTab', BatchHw(items))) =
                  Cardinality(BatchHw(items))
            /\ sensorTab' \ RowsOf(sensorTab', BatchHw(items)) =
                  sensorTab \ RowsOf(sensorTab, BatchHw(items))
            /\ Len(readingTab') =
                  Len(readingTab) + Cardinality(Fresh(items, readingTab))
            /\ SubSeq(readingTab', 1, Len(readingTab)) = readingTab
            /\ Fresh(items, readingTab') = {}]_vars

C11_Witness ==
    /\ tpc = "close"
    /\ QuietFullTick
    /\ Len(items) = 2
    /\ Cardinality(BatchHw(items)) = 1
    /\ items[1].sensor # items[2].sensor
    /\ rBefore = <<>>
    /\ Len(readingTab) = 2
    /\ Cardinality(sensorTab) = 1

\* C12: when stop was set while the relay thread slept in its ON phase, no
\* frame is written from then on (the last frame on the wire stays the ON
\* frame), and the thread leaves its loop.
C12_StopInOnPhaseWritesNoOff ==
    /\ [][stopAt = "on_sleep" => (wire' = wire /\ wseq' = wseq)]_vars
    /\ [](stopAt = "on_sleep" => wire = RelayOn)
    /\ (stopAt = "on_sleep") ~> (bpc = "done")

C12_Witness ==
    /\ stopAt = "on_sleep"
    /\ bpc = "done"
    /\ wire = RelayOn

\* C13: the relay loop ends only at its loop test with stop set (or by the
\* early return before the loop); "not found" and every error lead to a
\* sleep of the fixed retry delay and from there to the loop test, which
\* with stop unset goes on to discovery; so while stop is unset the thread
\* is back in discovery after every such failure.
C13_RelayFailuresRetry ==
    /\ [][/\ (bpc' = "done" /\ bpc # "done") =>
                (bpc = "entry" \/ (bpc = "top" /\ stop))
          /\ (bpc' \in {"nf_sleep", "err_sleep"} /\ bpc' # bpc) =>
                bsleep' = RetryDelay
          /\ (bpc \in {"nf_sleep", "err_sleep"} /\ bpc' # bpc) =>
                bpc' = "top"
          /\ (bpc = "top" /\ ~stop /\ bpc' # bpc) => bpc' = "find"
          /\ (bpc \in BtFailSteps /\ bpc' # bpc) =>
                bpc' \in {"connect", "nf_sleep", "inner", "on_sleep", "leave",
                          "off_write", "off_sleep", "top", "err_sleep"}]_vars
    /\ (bpc \in {"nf_sleep", "err_sleep"}) ~> (bpc = "find" \/ stop)

C13_Witness ==
    /\ bpc = "find"
    /\ ~stop
    /\ wire = RelayOff
    /\ wseq = 1

\* C14: with uptime minutes <= 0, downtime minutes <= 0, or the device
\* address unset or empty, start_bt_switcher starts no thread, and no frame
\* is ever written.
C14_DisabledSwitcherWritesNothing ==
    (btcfg.up <= 0 \/ btcfg.down <= 0 \/ btcfg.mac \in {"none", ""}) =>
        /\ bpc \in {"init", "disabled"}
        /\ wire = <<>>
        /\ wseq = 0

C14_Witness ==
    /\ bpc = "disabled"
    /\ btcfg.up = 1
    /\ btcfg.down = 1
    /\ btcfg.mac = ""
    /\ stop

\* C15: every attempt to open the device is made with the handle closed and
\* with no serial I/O failure (failed open, failed read) that has not been
\* followed by a wait; the wait after a failure lasts the current backoff.
C15_IoFailureClosesAndBacksOff ==
    [][/\ (spc = "open" /\ spc' # spc) =>
            (ser = "closed" /\ lastFail = "none")
       /\ (spc' = "backoff" /\ spc # "backoff") => ssleep' = backoff_s]_vars

\* translate_packet raises on the packet.
TranslateRaises(pkt) ==
    pkt.obj = "dict" /\ encode_raises(resolve_name(pkt.fields))

\* C16: when a line has been read, the loop hands one new item to the queue
\* if the parser returns a JSON object for it (with or without fields) whose
\* translation does not raise, and drops the line if the parser returns none.
C16_EveryPacketEnqueued ==
    [][(spc = "parse" /\ spc' # spc) =>
          LET pkt == parse_line_to_packet(raw, received + 1)
          IN  /\ (pkt.obj = "dict" /\ ~TranslateRaises(pkt)) =>
                    /\ spc' = "enqueue"
                    /\ cur' # NoItem
                    /\ received' = received + 1
              /\ pkt.obj = "none" =>
                    (spc' = "read" /\ cur' = cur /\ q' = q)]_vars

\* C17: when on_packet raises on a parsed packet, the serial loop is back at
\* its inner loop test with the same handle open, nothing enqueued, no wait
\* and no change to the backoff; and from that test, with stop unset, it
\* reads the next line.
C17_OnPacketFailureKeepsReading ==
    [][/\ (/\ spc = "parse"
           /\ spc' # spc
           /\ TranslateRaises(parse_line_to_packet(raw, received + 1))) =>
            /\ ser = "open" /\ ser' = "open"
            /\ spc' = "read"
            /\ q' = q /\ cur' = cur
            /\ ssleep' = 0
            /\ backoff_s' = backoff_s
            /\ lastFail' = lastFail
       /\ (spc = "read" /\ ~stop /\ spc' # spc) => spc' = "readline"]_vars

C17_Witness ==
    /\ pktErr
    /\ ser = "open"
    /\ spc = "append"
    /\ lastFail = "none"

\* The checksum byte of a frame equals the XOR of the bytes from the sync
\* byte through the last content byte.
ChecksumValid(f) ==
    /\ Len(f) >= 6
    /\ f[Len(f) - 1] = XorAll(SubSeq(f, 1, Len(f) - 2))

\* C20 (as stated): after any single byte of an encoded frame is changed
\* to a different value, the checksum byte no longer equals the XOR of the
\* bytes from 0xA1 through the last content byte.
C20_AnyByteChangeInvalidates == fpos # 0 => ~ChecksumValid(fout)

\* C20 (amended): an encoded frame carries a valid checksum; changing any
\* single byte before the trailing 0xAA (sync, password, opcode, content or
\* the checksum byte itself) invalidates it, and changing the trailing
\* 0xAA, which the checksum does not cover, leaves it valid.
C20_CoveredByteChangeInvalidates ==
    /\ (fout # <<>> /\ fpos = 0) => ChecksumValid(fout)
    /\ (fpos # 0 /\ fpos < Len(fout)) => ~ChecksumValid(fout)
    /\ (fpos # 0 /\ fpos = Len(fout)) => ChecksumValid(fout)

\* A content byte of a frame with two content bytes was changed.
C20_Witness ==
    /\ Len(fin.content) = 2
    /\ fpos = 6
    /\ fout[6] # fin.content[2]
    /\ fout[Len(fout)] = FrameTail

\* main has returned; the process may have ended already.
Returned == tpc \in {"returned", "exited"}

\* No device file is there for find_serial_port: the explicit path is unset
\* or missing and no glob pattern matches.
NoDevice(e) ==
    /\ e.serial_port = "none" \/ e.serial_port \notin e.devices
    /\ e.devices \cap GlobPaths = {}

\* C19: main returns status 2 when DATABASE_URL is missing (unset or
\* empty) and status 3 when the configuration loads and no serial device
\* is found; the two statuses differ and are not 0; and with either status
\* main returned before the queue and stop_event were made, before the
\* signal handlers were installed, before the serial reader or the relay
\* switcher was started and before the tick loop ran.
C19_StartupFailuresReturnEarly ==
    /\ (Returned /\ env.db_url \in {"none", ""}) => exitCode = 2
    /\ (Returned /\ env.db_url \notin {"none", ""} /\ env.mins_numeric
                 /\ NoDevice(env)) => exitCode = 3
    /\ exitCode \in {2, 3} =>
          /\ exitCode # 0
          /\ Returned
          /\ made = {}
          /\ spc = "unstarted" /\ bpc = "unstarted"
          /\ q = <<>> /\ ~stop /\ connected = "unset" /\ received = 0

\* Both startup failures happen: the process has ended with status 3 after
\* an explicit SERIAL_PORT that does not exist, or with status 2 after an
\* empty DATABASE_URL.
C19_Witness ==
    /\ tpc = "exited"
    /\ \/ exitCode = 3 /\ env.serial_port # "none"
       \/ exitCode = 2 /\ env.db_url = ""

\* C18: once the stop signal is set, the serial ingest loop, the relay
\* controller loop and the tick loop each eventually exit (every thread
\* keeps being scheduled and every blocking call returns or raises), and
\* main returns 0.
C18_StopEndsAllLoops ==
    stop ~> (/\ exitCode = 0
             /\ spc = "done"
             /\ bpc \in {"done", "disabled"})

\* C21: the frame _frame returns is exactly 0xA1, the password's high
\* byte, its low byte, the opcode, the content bytes, the XOR of all those
\* bytes, 0xAA, of length len(content) + 6; _on_now and _off_now are that
\* frame with opcode 0x01 and 0x02 and the one channel byte as content.
C21_FrameLayout ==
    (fout # <<>> /\ fpos = 0) =>
        LET n  == Len(fin.content)
            hi == fin.password \div 256
            lo == fin.password % 256
            on == on_now(fin.password)
            off == off_now(fin.password)
        IN  /\ Len(fout) = n + 6
            /\ fout[1] = 161 /\ fout[2] = hi /\ fout[3] = lo
            /\ fout[4] = fin.opcode
            /\ SubSeq(fout, 5, n + 4) = fin.content
            /\ fout[n + 5] = XorAll(SubSeq(fout, 1, n + 4))
            /\ fout[n + 6] = 170
            /\ \A i \in 1..(n + 6) : fout[i] \in Bytes
            /\ on = <<161, hi, lo, 1, 1,
                      XorAll(<<161, hi, lo, 1, 1>>), 170>>
            /\ off = <<161, hi, lo, 2, 1,
                       XorAll(<<161, hi, lo, 2, 1>>), 170>>

\* The default password 0x04D2 framed with two content bytes.
C21_Witness ==
    /\ fpos = 0
    /\ fin.password = 1234 /\ Len(fin.content) = 2
    /\ Len(fout) = 8 /\ fout[2] = 4 /\ fout[3] = 210

\* The candidate text of a line: the whole trimmed line when it is braced,
\* otherwise the trimmed text after the first '|' when that is braced;
\* <<>> when the line is empty, a comment, or has no such text.
Candidate(line) ==
    LET text == Strip(line)
        bars == {k \in 1..Len(text) : text[k] = "|"}
        rest == IF bars = {} THEN <<>>
                ELSE Strip(SubSeq(text,
                                  (CHOOSE k \in bars : \A j \in bars : k <= j)
                                      + 1,
                                  Len(text)))
    IN  IF text = <<>> \/ text[1] = "#" THEN <<>>
        ELSE IF Braced(text) THEN text
        ELSE IF Braced(rest) THEN rest
        ELSE <<>>

\* C22: parse_line_to_packet returns the decoded object exactly when the
\* line has a candidate text that decodes as a JSON object, and in every
\* other case returns none; it never raises.
C22_ParseReturnsPacketOrNone ==
    pout # NoResult =>
        LET text == Candidate(pin)
            obj == json_loads(text, 1)
        IN  IF text # <<>> /\ obj.obj = "dict"
            THEN pout = obj
            ELSE pout = NoPacket

\* A JSON number (not a boolean, a string or null).
IsJsonNumber(v) == v.t = "num"

\* C23: the sensor's coordinates are the packet's gps_lat and gps_long when
\* both are present and numeric, and are both the configured defaults in
\* every other case.
C23_CoordinatesBothOrDefaults ==
    tout # NoItem =>
        LET gps_lat == Get(tin, "gps_lat")
            gps_long == Get(tin, "gps_long")
        IN  IF IsJsonNumber(gps_lat) /\ IsJsonNumber(gps_long)
            THEN /\ tout.sensor.gps_latitude = gps_lat
                 /\ tout.sensor.gps_longitude = gps_long
            ELSE /\ tout.sensor.gps_latitude = DEFAULT_LAT
                 /\ tout.sensor.gps_longitude = DEFAULT_LON

\* 1000 <= hi * 65536 + lo <= 1000 + 2^31 - 1, on <<hi, lo>>.
InIdRange(id) ==
    /\ id[1] \in 0..32768
    /\ id[2] \in 0..65535
    /\ id[1] = 0 => id[2] >= 1000
    /\ id[1] = 32768 => id[2] <= 999

\* C30: every translation gives the sensor the hardware_id 1000 +
\* (CRC32(name) & 0x7FFFFFFF) of the resolved name (for "a" 1756873259, for
\* "tx-unknown" 90842959, for "tx-7" 124531399), within 1000 .. 1000 + 2^31
\* - 1, the same in every translation of the same packet, and gives the
\* reading that hardware_id as its sensor_id.
C30_HardwareIdOfName ==
    [][tout' # NoItem =>
          LET name == resolve_name(tin)
              id == tout'.sensor.hardware_id
          IN  /\ tout'.sensor.name = name
              /\ id = stable_hardware_id(name)
              /\ InIdRange(id)
              /\ name = <<97>> => id = <<26807, 49707>>
              /\ name = Tx \o Unknown => id = <<1386, 10063>>
              /\ name = Tx \o <<55>> => id = <<1900, 12999>>
              /\ tout'.reading.sensor_id = id
              /\ tout # NoItem => tout.sensor.hardware_id = id]_vars

C30_Witness ==
    /\ now = MaxClock
    /\ tin = <<>>
    /\ tout.sensor.name = Tx \o Unknown
    /\ tout.sensor.hardware_id = <<1386, 10063>>
    /\ tout.reading.sensor_id = <<1386, 10063>>

\* The positions of the main thread at which a blocking operation starts:
\* the probe, the flush (from its connect on) and the two sleeps.
MainBlocking == {"probe", "connect", "sleep_fail", "sleep", "err_sleep"}

\* C24: with the stop signal set, the tick loop starts no new blocking
\* operation: it enters no probe, no flush and no sleep.
C24_NoNewBlockingOpAfterStop ==
    [][(stop /\ tpc' # tpc) => tpc' \notin MainBlocking]_vars

\* The positions at which a thread is inside "with self._lock": the bodies
\* of dequeue_batch, enqueue and __len__.
MainLocked == {"dequeue_locked", "requeue_locked", "len_locked"}
SerialLocked == {"append", "len_locked"}

\* C25: at most one thread holds the queue lock, a thread holds it exactly
\* while it is inside the body of enqueue, dequeue_batch or len, and never
\* while it is in a probe, a flush, a sleep or a serial read.
C25_LockOnlyAroundContainer ==
    /\ Cardinality(lock) <= 1
    /\ lock \subseteq {"main", "serial"}
    /\ "main" \in lock <=> tpc \in MainLocked
    /\ "serial" \in lock <=> spc \in SerialLocked
    /\ "main" \in lock => tpc \notin (MainBlocking \cup FlushSteps)
    /\ "serial" \in lock => spc # "read"

C25_Witness ==
    /\ lock = {"serial"}
    /\ spc = "len_locked"
    /\ tpc = "requeue"
    /\ reqIdx = 1

\* C26: the backoff is 1 s at the start, is always one of 1, 2, 4, 8, 16,
\* 30 s, is the length of the wait after a failed open, is doubled up to 30 s
\* when that wait ends, is set to 1 s by a successful open, and is changed
\* by nothing else.
C26_BackoffDoublesToCap ==
    /\ backoff_s = 1
    /\ [][/\ backoff_s' \in {1, 2, 4, 8, 16, 30}
          /\ (spc = "open" /\ spc' = "backoff") =>
                (ssleep' = backoff_s /\ backoff_s' = backoff_s)
          /\ (spc = "backoff" /\ spc' # spc) =>
                backoff_s' = (IF backoff_s >= 16 THEN 30 ELSE 2 * backoff_s)
          /\ (spc = "open" /\ spc' = "read") => backoff_s' = 1
          /\ spc \notin {"open", "backoff"} => backoff_s' = backoff_s]_vars

C26_Witness ==
    /\ spc = "backoff"
    /\ backoff_s = 30
    /\ ssleep = 30
    /\ ser = "closed"

\* The position in the batch of the last item with the hardware_id of
\* item i.
LastOf(i) ==
    CHOOSE j \in 1..Len(items) :
        /\ items[j].sensor.hardware_id = items[i].sensor.hardware_id
        /\ \A k \in (j + 1)..Len(items) :
              items[k].sensor.hardware_id # items[i].sensor.hardware_id

\* C27: after the sensor step of a flush, the transaction holds for every
\* hardware_id of the batch exactly one sensor row, and that row is the
\* sensor dict (name, type, coordinates, metadata) of the last batch item
\* with that hardware_id.
C27_LastSensorWins ==
    [][(tpc = "sensors" /\ tpc' = "readings") =>
          \A i \in 1..Len(items) :
              {r \in txS' : r.hardware_id = items[i].sensor.hardware_id}
                  = {items[LastOf(i)].sensor}]_vars

C27_Witness ==
    /\ tpc = "readings"
    /\ Len(items) = 2
    /\ items[1].sensor.hardware_id = items[2].sensor.hardware_id
    /\ items[1].sensor.sensor_type # items[2].sensor.sensor_type
    /\ items[2].sensor \in txS
    /\ items[1].sensor \notin txS

\* Every reading row has a sensor row: its sensor_id is a hardware_id.
NoOrphanReading(sensors, readings) ==
    \A i \in 1..Len(readings) :
        \E s \in sensors : s.hardware_id = readings[i].sensor_id

\* C28: the reading step of a flush runs with the sensor rows of the whole
\* batch already in the transaction; the commit runs with the sensor rows
\* and the reading rows of the whole batch in it; stored rows change at the
\* commit only, to the transaction's rows; and no stored reading row is
\* without its sensor row.
C28_SensorsThenReadingsOneCommit ==
    [][/\ (tpc = "readings" /\ tpc' = "commit") =>
             \A i \in 1..Len(items) :
                 \E s \in txS : s.hardware_id = items[i].reading.sensor_id
       /\ (tpc = "commit" /\ tpc' = "close") =>
             /\ \A i \in 1..Len(items) :
                   /\ \E s \in txS :
                         s.hardware_id = items[i].sensor.hardware_id
                   /\ \E r \in 1..Len(txR) :
                         /\ txR[r].sensor_id = items[i].reading.sensor_id
                         /\ txR[r].ts = items[i].reading.ts
             /\ sensorTab' = txS
             /\ readingTab' = txR
       /\ (sensorTab' # sensorTab \/ readingTab' # readingTab) =>
             (tpc = "commit" /\ tpc' = "close")
       /\ NoOrphanReading(sensorTab', readingTab')]_vars

C28_Witness ==
    /\ tpc = "close"
    /\ Len(items) = 2
    /\ Len(readingTab) = 2
    /\ Cardinality(sensorTab) = 2
    /\ NoOrphanReading(sensorTab, readingTab)

\* A frame is written to the relay in this step.
FrameWritten == wseq' # wseq

\* The frame is an "ON now" / "OFF now" frame.
IsOnFrame(f) == Len(f) = 7 /\ f[1] = FrameHead /\ f[4] = OpOn
IsOffFrame(f) == Len(f) = 7 /\ f[1] = FrameHead /\ f[4] = OpOff

\* C29: the relay thread connects only after a discovery that found the
\* device; it writes a frame only inside an open connection; the first
\* write of a connection and the write after every OFF phase is an ON frame
\* followed by the ON sleep, and the write after every ON phase is an OFF
\* frame followed by the OFF sleep.
C29_FramesAlternateFromOn ==
    [][/\ (bpc' = "connect" /\ bpc # bpc') => bpc = "find"
       /\ (bpc' = "inner" /\ bpc # bpc') => bpc \in {"connect", "off_sleep"}
       /\ (bpc' = "on_write" /\ bpc # bpc') => bpc = "inner"
       /\ (bpc' = "off_write" /\ bpc # bpc') => bpc = "on_sleep"
       /\ FrameWritten => bpc \in {"on_write", "off_write"}
       /\ (FrameWritten /\ bpc = "on_write") =>
             /\ IsOnFrame(wire')
             /\ bpc' = "on_sleep"
             /\ bsleep' = phase_ds(btcfg.up)
       /\ (FrameWritten /\ bpc = "off_write") =>
             /\ IsOffFrame(wire')
             /\ IsOnFrame(wire)
             /\ bpc' = "off_sleep"
             /\ bsleep' = phase_ds(btcfg.down)
       /\ wire' # wire => FrameWritten]_vars

\* An ON frame written as an even-numbered frame: a connection after a
\* failure has started with ON.
C29_Witness ==
    /\ bpc = "on_sleep"
    /\ IsOnFrame(wire)
    /\ wseq = 0
    /\ bsleep = phase_ds(btcfg.up)

\* C31: the tick loop is left only from its loop test and only with the
\* stop signal set; with the signal unset that test starts a tick; a false
\* probe goes to the tick sleep, a failed flush to the requeue loop, its
\* 2 s sleep and the tick sleep, an error raised in the tick to the 1 s
\* sleep, and each of these sleeps back to the loop test.
C31_TickLoopExitsOnlyOnStop ==
    [][/\ (tpc' = "exit" /\ tpc # "exit") => (tpc = "top" /\ stop)
       /\ (tpc = "top" /\ ~stop /\ tpc' # tpc) => tpc' = "probe"
       /\ (tpc = "probe" /\ tpc' # tpc /\ connected' = "no") => tpc' = "sleep"
       /\ (tpc \in FlushSteps /\ tpc' \notin FlushSteps \cup {"len"}) =>
             tpc' = "requeue"
       /\ (tpc = "requeue_locked" /\ tpc' # tpc) =>
             tpc' \in {"requeue", "sleep_fail"}
       /\ (tpc = "sleep_fail" /\ tpc' # tpc) => tpc' = "sleep"
       /\ (tpc = "sleep" /\ tpc' # tpc) => tpc' \in {"top", "err_sleep"}
       /\ (tpc = "err_sleep" /\ tpc' # tpc) => tpc' = "top"]_vars

C31_Witness ==
    /\ tpc = "err_sleep"
    /\ ~stop
    /\ Len(q) = MaxPackets
    /\ readingTab = <<>>

\* Every packet received so far is a committed reading, and no item is in the
\* queue, in on_packet's hands or in a batch of the tick.
AllFlushed ==
    /\ received > 0
    /\ cur = NoItem
    /\ q = <<>>
    /\ Held = <<>>
    /\ tpc \notin FlushSteps \cup {"requeue", "requeue_locked"}
    /\ \A id \in 1..received : Stored(id)

\* C32: once every queued item has been flushed successfully, the stored
\* sensor row of each hardware_id holds the identity fields (name, type,
\* coordinates, metadata) of the packet of that sensor received last, also
\* after failed flush attempts whose batches were re-enqueued.
C32_SensorRowIsLatestIdentity ==
    AllFlushed => \A row \in sensorTab : row \in latest

============================================================================
